---- MODULE Spec2Model ----
(***************************************************************************)
(* A model of the go-assuan server dispatcher (package server: Serve,      *)
(* handleCmd, helpCmd, optionCmd, defaultResetCmd, ServeNet) on top of the  *)
(* wire layer of package common (ReadLine, WriteLine, WriteData,            *)
(* WriteComment), and of the client session (package client: Init,         *)
(* SimpleCmd, Transact, Reset, Option, Close) talking to a scripted peer.  *)
(* Further specifications put the client and the server on one stream,     *)
(* let the listener of ServeNet fail, run the pinentry handler that writes *)
(* data itself, serve blueprints that register handlers under the built-in *)
(* verbs, and exercise the escaping codec on its own.                      *)
(*                                                                         *)
(* Text (verbs, parameters, raw lines) is a sequence of one-character      *)
(* strings, so that upper-casing, splitting on the first space, the OPTION *)
(* pattern and percent escaping are computed character by character.       *)
(***************************************************************************)
EXTENDS Integers, Sequences, FiniteSets, TLC

\* common.MaxLineLen: maximum length of a line, including the space after
\* the command and the line feed.
MaxLineLen == 1000

\* Number of connections the listener accepts and serves concurrently.
NConns == 2

Conns == 1..NConns

-----------------------------------------------------------------------------
(* Characters and text                                                     *)

Lower == <<"a","b","c","d","e","f","g","h","i","j","k","l","m",
           "n","o","p","q","r","s","t","u","v","w","x","y","z">>

Upper == <<"A","B","C","D","E","F","G","H","I","J","K","L","M",
           "N","O","P","Q","R","S","T","U","V","W","X","Y","Z">>

Digits == {"0","1","2","3","4","5","6","7","8","9"}

Letters == {Lower[i] : i \in 1..26} \cup {Upper[i] : i \in 1..26}

\* The upper-case letter of each lower-case letter.
LowerToUpper ==
    [c \in {Lower[i] : i \in 1..26} |-> Upper[CHOOSE i \in 1..26 : Lower[i] = c]]

\* unicode.ToUpper on one character (strings.ToUpper maps it over the text).
ToUpperChar(c) == IF c \in DOMAIN LowerToUpper THEN LowerToUpper[c] ELSE c

ToUpper(s) == [i \in 1..Len(s) |-> ToUpperChar(s[i])]

HasPrefix(s, p) == Len(s) >= Len(p) /\ SubSeq(s, 1, Len(p)) = p

\* The characters strings.TrimSpace removes.
SpaceChars == {" ", "\t", "\n", "\r", "\f"}

\* len(strings.TrimSpace(line)) == 0
IsBlank(line) == \A i \in 1..Len(line) : line[i] \in SpaceChars

\* Index of the first occurrence of character c in s, 0 when absent.
IndexOf(s, c) ==
    IF \E i \in 1..Len(s) : s[i] = c
    THEN CHOOSE i \in 1..Len(s) : s[i] = c /\ \A j \in 1..(i - 1) : s[j] # c
    ELSE 0

\* The protocol verbs, as text.
OK == <<"O","K">>
ERR == <<"E","R","R">>
NOP == <<"N","O","P">>
BYE == <<"B","Y","E">>
RESET == <<"R","E","S","E","T">>
OPTION == <<"O","P","T","I","O","N">>
HELP == <<"H","E","L","P">>
CANCEL == <<"C","A","N","C","E","L">>
END == <<"E","N","D">>
HASH == <<"#">>

\* Application verbs of the example protocol (server_test.go).
GETPIN == <<"G","E","T","P","I","N">>
SETDESC == <<"S","E","T","D","E","S","C">>

-----------------------------------------------------------------------------
(* Errors                                                                  *)

\* common.Error: {Src, Code, SrcName, Message}.
MkError(src, code, srcName, message) ==
    [Src |-> src, Code |-> code, SrcName |-> srcName, Message |-> message]

NoError == MkError("", "", "", "")

\* A value of Go's error interface: nil, a *common.Error, or any other error.
Nil == [kind |-> "nil", e |-> NoError]
PErr(e) == [kind |-> "Error", e |-> e]
OtherErr(what) == [kind |-> "other", e |-> MkError("", what, "", "")]

ErrUnknownCmd == MkError("ErrSrcAssuan", "ErrAssUnknownCmd", "assuan", "unknown IPC command")
ErrHelpNotFound == MkError("ErrSrcAssuan", "ErrNotFound", "assuan", "not found")
ErrInvOption == MkError("ErrSrcAssuan", "ErrAssInvValue", "assuan", "invalid OPTION syntax")
ErrNotImpl == MkError("ErrSrcAssuan", "ErrNotImplemented", "assuan", "not implemented")

\* The structured error an application handler reports (getpin in server_test.go).
ErrHandler == MkError("ErrSrcUnknown", "ErrGeneral", "system", "I/O error")

\* Text as a string of the error model.
RECURSIVE Str(_)
Str(s) == IF s = <<>> THEN "" ELSE s[1] \o Str(Tail(s))

\* The text of the source names and messages of the errors the server
\* reports.
TextOf ==
    ("assuan" :> <<"a","s","s","u","a","n">>)
    @@ ("system" :> <<"s","y","s","t","e","m">>)
    @@ ("unknown IPC command" :> <<"u","n","k","n","o","w","n"," ","I","P","C"," ","c","o","m","m","a","n","d">>)
    @@ ("not found" :> <<"n","o","t"," ","f","o","u","n","d">>)
    @@ ("invalid OPTION syntax" :> <<"i","n","v","a","l","i","d"," ","O","P","T","I","O","N"," ","s","y","n","t","a","x">>)
    @@ ("not implemented" :> <<"n","o","t"," ","i","m","p","l","e","m","e","n","t","e","d">>)
    @@ ("I/O error" :> <<"I","/","O"," ","e","r","r","o","r">>)

\* The registry of error sources and codes: the number of each.
SrcNumbers == ("ErrSrcUnknown" :> 0) @@ ("ErrSrcAssuan" :> 15)
CodeNumbers ==
    ("ErrGeneral" :> 1) @@ ("ErrNotFound" :> 27) @@ ("ErrNotImplemented" :> 69)
    @@ ("ErrAssInvValue" :> 261) @@ ("ErrAssUnknownCmd" :> 275)

\* The CODE of an ERR line is the source number times this, plus the code
\* number.
SrcShift == 16777216

DecimalDigits == <<"0","1","2","3","4","5","6","7","8","9">>

\* A number in decimal.
RECURSIVE NumText(_)
NumText(n) ==
    IF n < 10 THEN <<DecimalDigits[n + 1]>>
    ELSE NumText(n \div 10) \o <<DecimalDigits[(n % 10) + 1]>>

\* The number a decimal text stands for.
RECURSIVE TextNum(_)
TextNum(t) ==
    IF t = <<>> THEN 0
    ELSE 10 * TextNum(SubSeq(t, 1, Len(t) - 1))
         + (CHOOSE d \in 0..9 : DecimalDigits[d + 1] = t[Len(t)])

IsNumber(t) ==
    t # <<>> /\ \A i \in 1..Len(t) : \E d \in 1..10 : DecimalDigits[d] = t[i]

\* The name the registry has for a number, the number itself when it has none.
NameOf(registry, n) ==
    IF \E k \in DOMAIN registry : registry[k] = n
    THEN CHOOSE k \in DOMAIN registry : registry[k] = n
    ELSE Str(NumText(n))

\* The parameters of the ERR line of an error (Context.WriteError):
\* CODE, one space, DESCRIPTION; the description is the message and the
\* source name, joined as `message <source name>`.
ErrParams(e) ==
    NumText(SrcNumbers[e.Src] * SrcShift + CodeNumbers[e.Code])
    \o <<" ">> \o TextOf[e.Message] \o <<" ","<">> \o TextOf[e.SrcName] \o <<">">>

\* Position of the last ` <` of a description that ends in `>`, 0 when the
\* description has no source name.
SrcNameAt(desc) ==
    LET at == {i \in 1..(Len(desc) - 2) : desc[i] = " " /\ desc[i + 1] = "<"}
    IN  IF desc # <<>> /\ desc[Len(desc)] = ">" /\ at # {}
        THEN CHOOSE i \in at : \A j \in at : j <= i
        ELSE 0

\* common.DecodeErrCmd: the parameters of an ERR line are the code, one
\* space and the description; the four fields of the error are taken back
\* from them.
DecodeErrCmd(params) ==
    LET sp == IndexOf(params, " ")
        code == IF sp = 0 THEN params ELSE SubSeq(params, 1, sp - 1)
        desc == IF sp = 0 THEN <<>> ELSE SubSeq(params, sp + 1, Len(params))
        at == SrcNameAt(desc)
        message == IF at = 0 THEN desc ELSE SubSeq(desc, 1, at - 1)
        srcName == IF at = 0 THEN <<>> ELSE SubSeq(desc, at + 2, Len(desc) - 1)
    IN  IF IsNumber(code)
        THEN PErr(MkError(NameOf(SrcNumbers, TextNum(code) \div SrcShift),
                          NameOf(CodeNumbers, TextNum(code) % SrcShift),
                          Str(srcName), Str(message)))
        ELSE PErr(MkError("", Str(code), Str(srcName), Str(message)))

-----------------------------------------------------------------------------
(* Escaping codec                                                          *)

HexDigits == <<"0","1","2","3","4","5","6","7","8","9","A","B","C","D","E","F">>

IsHex(c) == \E i \in 1..16 : HexDigits[i] = ToUpperChar(c)

HexVal(c) == (CHOOSE i \in 1..16 : HexDigits[i] = ToUpperChar(c)) - 1

\* The character with a given byte value, for the bytes the model's texts use.
CharOfCode(n) ==
    CASE n = 10 -> "\n"
      [] n = 13 -> "\r"
      [] n = 32 -> " "
      [] n = 37 -> "%"
      [] n = 43 -> "+"
      [] n = 61 -> "="
      [] n = 92 -> "\\"
      [] n \in 65..90 -> Upper[n - 64]
      [] n \in 97..122 -> Lower[n - 96]
      [] OTHER -> "?"

\* An escaping that lets % through.
EscapeChar_percentKept(c) ==
    CASE c = "\r" -> <<"%","0","D">>
      [] c = "\n" -> <<"%","0","A">>
      [] c = "\\" -> <<"%","5","C">>
      [] OTHER -> <<c>>

\* escapeParameters: CR, LF, % and \ become their percent form, every
\* other character passes through unchanged.
EscapeChar(c) ==
    CASE c = "\r" -> <<"%","0","D">>
      [] c = "\n" -> <<"%","0","A">>
      [] c = "%" -> <<"%","2","5">>
      [] c = "\\" -> <<"%","5","C">>
      [] OTHER -> <<c>>

\* The text is escaped half by half, which keeps the evaluation shallow on
\* payloads of a thousand characters; the result is the character-wise one.
RECURSIVE escapeParameters(_)
escapeParameters(s) ==
    IF s = <<>> THEN <<>>
    ELSE IF Len(s) = 1 THEN EscapeChar(s[1])
    ELSE LET h == Len(s) \div 2
         IN  escapeParameters(SubSeq(s, 1, h)) \o escapeParameters(SubSeq(s, h + 1, Len(s)))

\* An unescaping that takes + for a space, as URL query decoding does.
RECURSIVE unescapeParameters_plusIsSpace(_)
unescapeParameters_plusIsSpace(s) ==
    IF s = <<>> THEN [ok |-> TRUE, val |-> <<>>]
    ELSE IF Head(s) = "%"
    THEN IF Len(s) >= 3 /\ IsHex(s[2]) /\ IsHex(s[3])
         THEN LET rest == unescapeParameters_plusIsSpace(SubSeq(s, 4, Len(s)))
              IN  [ok |-> rest.ok,
                   val |-> IF rest.ok
                           THEN <<CharOfCode(16 * HexVal(s[2]) + HexVal(s[3]))>> \o rest.val
                           ELSE <<>>]
         ELSE [ok |-> FALSE, val |-> <<>>]
    ELSE LET rest == unescapeParameters_plusIsSpace(Tail(s))
         IN  [ok |-> rest.ok,
              val |-> IF rest.ok
                      THEN <<IF Head(s) = "+" THEN " " ELSE Head(s)>> \o rest.val
                      ELSE <<>>]

\* Every % of the text is followed by two hexadecimal digits.
Decodable(s) ==
    \A i \in 1..Len(s) :
        s[i] = "%" => i + 2 <= Len(s) /\ IsHex(s[i + 1]) /\ IsHex(s[i + 2])

\* Where a decodable text is cut in two for decoding: near its middle and
\* never inside a percent sequence.
CutAt(s) ==
    LET m == Len(s) \div 2
    IN  IF s[m] = "%" THEN m - 1 ELSE IF s[m - 1] = "%" THEN m - 2 ELSE m

\* The decoded form of a decodable text: %XY becomes the byte XY, every
\* other character stays.  Long texts are decoded part by part, which
\* keeps the evaluation shallow on lines of a thousand characters; the
\* result is the character-wise one.
RECURSIVE unescapeText(_)
unescapeText(s) ==
    IF s = <<>> THEN <<>>
    ELSE IF Len(s) > 6
    THEN unescapeText(SubSeq(s, 1, CutAt(s))) \o unescapeText(SubSeq(s, CutAt(s) + 1, Len(s)))
    ELSE IF Head(s) = "%"
    THEN <<CharOfCode(16 * HexVal(s[2]) + HexVal(s[3]))>> \o unescapeText(SubSeq(s, 4, Len(s)))
    ELSE <<Head(s)>> \o unescapeText(Tail(s))

\* unescapeParameters: %XY becomes the byte XY; a % that is not followed by
\* two hex digits is a decode failure; + is never special.
unescapeParameters(s) ==
    IF Decodable(s) THEN [ok |-> TRUE, val |-> unescapeText(s)]
    ELSE [ok |-> FALSE, val |-> <<>>]

-----------------------------------------------------------------------------
(* Wire layer: common.Context                                              *)

ErrEscape == OtherErr("malformed escape")
ErrRead == OtherErr("read failed")
ErrTooLongToken == OtherErr("bufio.Scanner: token too long")
ErrTooLong == OtherErr("too long command or parameters")
ErrWrite == OtherErr("write failed")

\* bufio.ScanLines drops one trailing carriage return of a line.
dropCR(line) ==
    IF Len(line) > 0 /\ line[Len(line)] = "\r"
    THEN SubSeq(line, 1, Len(line) - 1)
    ELSE line

\* A ReadLine that takes status lines for commands.
IsSkipped_statusReturned(line) ==
    HasPrefix(line, <<"#">>) \/ IsBlank(line)

\* The lines ReadLine does not return: comments, status lines, blank lines.
IsSkipped(line) ==
    HasPrefix(line, <<"#">>) \/ HasPrefix(line, <<"S", " ">>) \/ IsBlank(line)

\* A split that leaves the verb as the peer wrote it.
ParseLine_keepsCase(line) ==
    LET sp == IndexOf(line, " ")
    IN  IF sp = 0
        THEN [cmd |-> line, params |-> <<>>, err |-> Nil]
        ELSE LET un == unescapeParameters(SubSeq(line, sp + 1, Len(line)))
             IN  IF ~un.ok
                 THEN [cmd |-> <<>>, params |-> <<>>, err |-> ErrEscape]
                 ELSE [cmd |-> SubSeq(line, 1, sp - 1), params |-> un.val, err |-> Nil]

\* The split and decoding of one command line (context.go, lines 59-74).
ParseLine(line) ==
    LET sp == IndexOf(line, " ")
    IN  IF sp = 0
        THEN [cmd |-> ToUpper(line), params |-> <<>>, err |-> Nil]
        ELSE LET un == unescapeParameters(SubSeq(line, sp + 1, Len(line)))
             IN  IF ~un.ok
                 THEN [cmd |-> <<>>, params |-> <<>>, err |-> ErrEscape]
                 ELSE [cmd |-> ToUpper(SubSeq(line, 1, sp - 1)),
                       params |-> un.val, err |-> Nil]

\* Context.ReadLine on the lines the peer has sent and the way the stream
\* ends after them: "eof" (closed), "err" (read failure).  At the end of the
\* stream scanner.Scan() is false and scanner.Err() is nil, so ReadLine
\* returns an empty command and no error.
RECURSIVE ReadLine(_)
ReadLine(stream) ==
    IF stream.lines = <<>>
    THEN IF stream.end = "err"
         THEN [cmd |-> <<>>, params |-> <<>>, err |-> ErrRead]
         ELSE [cmd |-> <<>>, params |-> <<>>, err |-> Nil]
    ELSE LET raw == Head(stream.lines)
             line == dropCR(raw)
         IN  IF Len(raw) + 1 > MaxLineLen
             THEN [cmd |-> <<>>, params |-> <<>>, err |-> ErrTooLongToken]
             ELSE IF IsSkipped(line)
             THEN ReadLine([stream EXCEPT !.lines = Tail(stream.lines)])
             ELSE ParseLine(line)

\* The number of lines one call of ReadLine takes from the stream: the
\* skipped lines and the line it returns or fails on.
RECURSIVE LinesRead(_)
LinesRead(stream) ==
    IF stream.lines = <<>> THEN 0
    ELSE LET raw == Head(stream.lines)
         IN  IF Len(raw) + 1 > MaxLineLen THEN 1
             ELSE IF IsSkipped(dropCR(raw))
             THEN 1 + LinesRead([stream EXCEPT !.lines = Tail(stream.lines)])
             ELSE 1

\* The stream as one call of ReadLine leaves it.
After(stream) ==
    [stream EXCEPT !.lines = SubSeq(stream.lines, LinesRead(stream) + 1, Len(stream.lines))]

\* scanner.Scan() found the stream closed: every later call finds the same.
AtEOF(stream) == stream.end = "eof" /\ LinesRead(stream) = Len(stream.lines)
                     /\ \A i \in 1..Len(stream.lines) :
                            /\ Len(stream.lines[i]) + 1 <= MaxLineLen
                            /\ IsSkipped(dropCR(stream.lines[i]))

\* A write the server attempts: WriteLine(cmd, params) or WriteError(e).
WLine(cmd, params) == [cmd |-> cmd, params |-> params, e |-> NoError]
WError(e) == [cmd |-> ERR, params |-> <<>>, e |-> e]

\* Context.WriteComment
WriteComment(text) == WLine(HASH, text)

\* The length check of Context.WriteLine.
TooLong(w) == Len(w.cmd) + Len(w.params) + 2 > MaxLineLen

\* The line Context.WriteLine puts on the stream: upper-cased command, one
\* space, escaped parameters, line feed (space and line feed are implicit in
\* the record).  An ERR line carries the error it serializes.
Encode(w) == [cmd |-> ToUpper(w.cmd), text |-> escapeParameters(w.params), e |-> w.e]

\* The bytes a line takes on the stream: verb, space, text, line feed.
LineLen(line) == Len(line.cmd) + 1 + Len(line.text) + 1

\* min of context.go
min(a, b) == IF a <= b THEN a ELSE b

\* The size of the chunks of WriteData: 3 is for 'D ' and line feed.
chunkLen == MaxLineLen - 3

DataVerb == <<"D">>

\* Chunks that each start on the last character of the one before.
DataLines_overlap(input) ==
    LET encoded == escapeParameters(input)
        n == (Len(encoded) + chunkLen - 1) \div chunkLen
    IN  [k \in 1..n |->
            [cmd |-> DataVerb,
             text |-> SubSeq(encoded, (k - 1) * (chunkLen - 1) + 1,
                             min((k - 1) * (chunkLen - 1) + chunkLen, Len(encoded))),
             e |-> NoError]]

\* The lines Context.WriteData writes for a payload when no write fails:
\* the escaped payload cut every chunkLen characters, each piece behind 'D '.
DataLines(input) ==
    LET encoded == escapeParameters(input)
        n == (Len(encoded) + chunkLen - 1) \div chunkLen
    IN  [k \in 1..n |->
            [cmd |-> DataVerb,
             text |-> SubSeq(encoded, (k - 1) * chunkLen + 1,
                             min(k * chunkLen, Len(encoded))),
             e |-> NoError]]

\* Context.WriteData when the write of chunk number failAt fails (0 = none):
\* the chunks before it are on the stream and the failure is returned.
WriteData(input, failAt) ==
    LET ls == DataLines(input)
    IN  IF failAt \in 1..Len(ls)
        THEN [out |-> SubSeq(ls, 1, failAt - 1), err |-> ErrWrite]
        ELSE [out |-> ls, err |-> Nil]

\* Index of the first attempted write that is longer than a line, 0 if none.
FirstTooLong(ws) ==
    IF \E i \in 1..Len(ws) : TooLong(ws[i])
    THEN CHOOSE i \in 1..Len(ws) : TooLong(ws[i]) /\ \A j \in 1..(i - 1) : ~TooLong(ws[j])
    ELSE 0

\* Index at which a sequence of writes stops: the first line that is too
\* long or the write at which the stream fails (failAt, 0 = never).
StopAt(ws, failAt) ==
    LET t == FirstTooLong(ws)
    IN  IF t = 0 THEN failAt
        ELSE IF failAt = 0 THEN t
        ELSE IF t <= failAt THEN t ELSE failAt

\* The number of writes of the sequence that are attempted: all of them, or
\* those up to the one that stops it.
Tried(ws, failAt) ==
    IF StopAt(ws, failAt) = 0 THEN Len(ws) ELSE StopAt(ws, failAt)

\* The lines that reach the stream.
Written(ws, failAt) ==
    LET k == StopAt(ws, failAt)
    IN  IF k = 0 THEN [i \in 1..Len(ws) |-> Encode(ws[i])]
        ELSE [i \in 1..(k - 1) |-> Encode(ws[i])]

\* The error of the write that stopped the sequence, Nil when none did.
WriteErr(ws, failAt) ==
    LET k == StopAt(ws, failAt)
    IN  IF k = 0 THEN Nil
        ELSE IF TooLong(ws[k]) THEN ErrTooLong ELSE ErrWrite

\* Context.WriteLine as one call: the line it puts on the stream, if any,
\* and what it returns; `fails` tells whether the stream refuses the write.
WriteLine(cmd, params, fails) ==
    [out |-> Written(<<WLine(cmd, params)>>, IF fails THEN 1 ELSE 0),
     err |-> WriteErr(<<WLine(cmd, params)>>, IF fails THEN 1 ELSE 0)]

-----------------------------------------------------------------------------
(* Server: blueprints (ProtoInfo) and application code                     *)

\* Connection state values: what GetDefaultState returns, what a handler
\* leaves after changing it, and the zero value (nil).
DefaultState == "default"
MutatedState == "mutated"
ZeroState == "nil"

\* What application code (a registered handler or the option setter) does
\* when invoked: the error it returns and whether it changes the state.
Outcomes ==
    [res : {Nil, PErr(ErrHandler), OtherErr("handler failed")},
     st : {"keep", "mutate"}]

NoOutcome == [res |-> Nil, st |-> "keep"]

StateAfter(st, o) == IF o.st = "mutate" THEN MutatedState ELSE st

NoHandlers == [v \in {} |-> ""]

HelpGetpin == << <<"p","i","n">>, <<"t","t","y">> >>

\* The blueprints served: the handler table (verb -> handler), the help
\* table (verb -> help lines), whether Handlers is a nil map and whether
\* SetOption is set.
Blueprints ==
    { [name |-> "pinentry", Greeting |-> <<"h","i">>, HandlersNil |-> FALSE,
       Handlers |-> (GETPIN :> "getpin"),
       Help |-> (GETPIN :> HelpGetpin), HasSetOption |-> TRUE],
      [name |-> "custom", Greeting |-> <<"h","i">>, HandlersNil |-> FALSE,
       Handlers |-> (GETPIN :> "getpin") @@ (RESET :> "resetState"),
       Help |-> (GETPIN :> HelpGetpin) @@ (RESET :> <<>>), HasSetOption |-> FALSE],
      [name |-> "bare", Greeting |-> <<>>, HandlersNil |-> TRUE,
       Handlers |-> NoHandlers,
       Help |-> NoHandlers, HasSetOption |-> FALSE] }

\* The blueprint as registered at setup.
Setup(name) == CHOOSE b \in Blueprints : b.name = name

\* The orders in which ranging over a map with key set S can visit it.
Orders(S) ==
    {f \in [1..Cardinality(S) -> S] : \A i, j \in 1..Cardinality(S) : f[i] = f[j] => i = j}

-----------------------------------------------------------------------------
(* Server: dispatcher                                                      *)

\* [\d\w\-]
IsKeyChar(c) == c \in Letters \cup Digits \cup {"_", "-"}

\* Length of the longest prefix of s made of key characters.
RECURSIVE KeyLen(_)
KeyLen(s) ==
    IF s = <<>> \/ ~IsKeyChar(Head(s)) THEN 0 ELSE 1 + KeyLen(Tail(s))

\* splitOption with the pattern's key made optional ([\d\w\-]* for
\* [\d\w\-]+): an empty key is accepted.
splitOption_emptyKey(params) ==
    LET k == KeyLen(params)
        n == Len(params)
        val == SubSeq(params, k + 2, n)
    IN  IF k = n THEN [ok |-> TRUE, key |-> params, val |-> <<>>]
        ELSE IF params[k + 1] \in {" ", "="} /\ IndexOf(val, "\n") = 0
        THEN [ok |-> TRUE, key |-> SubSeq(params, 1, k), val |-> val]
        ELSE [ok |-> FALSE, key |-> <<>>, val |-> <<>>]

\* splitOption: optRegexp = ^([\d\w\-]+)(?:[ =](.*))?$ .  The key is the
\* longest key-character prefix; what follows is nothing, or a space or =
\* and a value in which . matches no line feed.
splitOption(params) ==
    LET k == KeyLen(params)
        n == Len(params)
        val == SubSeq(params, k + 2, n)
    IN  IF k = 0 THEN [ok |-> FALSE, key |-> <<>>, val |-> <<>>]
        ELSE IF k = n THEN [ok |-> TRUE, key |-> params, val |-> <<>>]
        ELSE IF params[k + 1] \in {" ", "="} /\ IndexOf(val, "\n") = 0
        THEN [ok |-> TRUE, key |-> SubSeq(params, 1, k), val |-> val]
        ELSE [ok |-> FALSE, key |-> <<>>, val |-> <<>>]

\* What handling one command does: handler and setter invocations, the
\* connection state and the shared handler table it leaves, the writes it
\* attempts in order, and the error it returns when every write succeeds.
Handled(calls, opts, st, handlers, out, ret) ==
    [calls |-> calls, opts |-> opts, st |-> st, handlers |-> handlers,
     out |-> out, ret |-> ret]

\* defaultResetCmd: logs and returns nil.
defaultResetCmd(st) == [res |-> Nil, st |-> st]

\* The names helpCmd lists before the handler table: an array of 8 strings
\* initialised with 7 names.
HelpBuiltins == <<NOP, OPTION, CANCEL, BYE, RESET, END, HELP, <<>> >>

helpCmd(p, st, params, order) ==
    IF Len(params) # 0
    THEN IF params \notin DOMAIN p.Help
         THEN Handled(<<>>, <<>>, st, p.Handlers, <<WError(ErrHelpNotFound)>>, Nil)
         ELSE Handled(<<>>, <<>>, st, p.Handlers,
                      [i \in 1..Len(p.Help[params]) |-> WriteComment(p.Help[params][i])]
                          \o <<WLine(OK, <<>>)>>,
                      Nil)
    ELSE Handled(<<>>, <<>>, st, p.Handlers,
                 [i \in 1..Len(HelpBuiltins) |-> WriteComment(HelpBuiltins[i])]
                     \o [i \in 1..Len(order) |-> WriteComment(order[i])]
                     \o <<WLine(OK, <<>>)>>,
                 Nil)

\* optionCmd from the call of SetOption on (lines 217-233): the reply to
\* what the setter returned.
setOptionReply(p, call) ==
    IF call.res.kind = "Error"
    THEN Handled(<<>>, <<call>>, call.left, p.Handlers,
                 <<WError(call.res.e), WLine(OK, <<>>)>>, Nil)
    ELSE IF call.res.kind = "other"
    THEN Handled(<<>>, <<call>>, call.left, p.Handlers, <<>>, call.res)
    ELSE Handled(<<>>, <<call>>, call.left, p.Handlers, <<WLine(OK, <<>>)>>, Nil)

optionCmd(p, st, params, o) ==
    IF ~p.HasSetOption
    THEN Handled(<<>>, <<>>, st, p.Handlers, <<WError(ErrNotImpl)>>, Nil)
    ELSE LET kv == splitOption(params)
         IN  IF ~kv.ok
             THEN Handled(<<>>, <<>>, st, p.Handlers, <<WError(ErrInvOption)>>, Nil)
             ELSE setOptionReply(p, [state |-> st, key |-> kv.key, val |-> kv.val,
                                     res |-> o.res, left |-> StateAfter(st, o)])

\* LookupTable without the test for a registered RESET handler:
\* defaultResetCmd replaces whatever the blueprint registered.
LookupTable_alwaysDefault(p, cmd) ==
    IF cmd = RESET
    THEN [v \in DOMAIN p.Handlers \cup {RESET} |->
             IF v = RESET THEN "defaultResetCmd" ELSE p.Handlers[v]]
    ELSE p.Handlers

\* The handler table the lookup of handleCmd's default branch sees: for
\* RESET without a registered handler, defaultResetCmd is stored first.
LookupTable(p, cmd) ==
    IF cmd = RESET /\ RESET \notin DOMAIN p.Handlers
    THEN p.Handlers @@ (RESET :> "defaultResetCmd")
    ELSE p.Handlers

\* The handler table shared by all connections after the command: a table
\* made for a nil Handlers lives only in handleCmd's copy of the blueprint.
SharedTable(p, cmd) ==
    IF p.HandlersNil THEN p.Handlers ELSE LookupTable(p, cmd)

\* unknownCmd reporting the wrong code.
unknownCmd_notImplemented(st, shared) ==
    [calls |-> <<>>, opts |-> <<>>, st |-> st, handlers |-> shared,
     out |-> <<WError(ErrNotImpl)>>, ret |-> Nil]

\* handleCmd when no handler is found (lines 114-124).
unknownCmd(st, shared) ==
    Handled(<<>>, <<>>, st, shared, <<WError(ErrUnknownCmd)>>, Nil)

\* An invocation that hands the handler a state fresh from the factory.
invoke_freshState(h, st, params, o) ==
    IF h = "defaultResetCmd"
    THEN [h |-> h, state |-> st, params |-> params,
          res |-> defaultResetCmd(st).res, left |-> defaultResetCmd(st).st]
    ELSE [h |-> h, state |-> DefaultState, params |-> params,
          res |-> o.res, left |-> StateAfter(DefaultState, o)]

\* The invocation of handler h: what it is passed, what it returns and the
\* state it leaves.  defaultResetCmd returns nil and touches nothing.
invoke(h, st, params, o) ==
    IF h = "defaultResetCmd"
    THEN [h |-> h, state |-> st, params |-> params,
          res |-> defaultResetCmd(st).res, left |-> defaultResetCmd(st).st]
    ELSE [h |-> h, state |-> st, params |-> params,
          res |-> o.res, left |-> StateAfter(st, o)]

\* handlerReply without the return after WriteError: OK follows the ERR.
handlerReply_errThenOk(call, shared) ==
    IF call.res.kind = "Error"
    THEN [calls |-> <<call>>, opts |-> <<>>, st |-> call.left, handlers |-> shared,
          out |-> <<WError(call.res.e), WLine(OK, <<>>)>>, ret |-> Nil]
    ELSE IF call.res.kind = "other"
    THEN [calls |-> <<call>>, opts |-> <<>>, st |-> call.left, handlers |-> shared,
          out |-> <<>>, ret |-> call.res]
    ELSE [calls |-> <<call>>, opts |-> <<>>, st |-> call.left, handlers |-> shared,
          out |-> <<WLine(OK, <<>>)>>, ret |-> Nil]

\* handlerReply without the type test: every error is sent to the peer and
\* the loop goes on.
handlerReply_fatalReported(call, shared) ==
    IF call.res.kind # "nil"
    THEN [calls |-> <<call>>, opts |-> <<>>, st |-> call.left, handlers |-> shared,
          out |-> <<WError(call.res.e)>>, ret |-> Nil]
    ELSE [calls |-> <<call>>, opts |-> <<>>, st |-> call.left, handlers |-> shared,
          out |-> <<WLine(OK, <<>>)>>, ret |-> Nil]

\* handleCmd after the handler returned (lines 126-146).
handlerReply(call, shared) ==
    IF call.res.kind = "Error"
    THEN Handled(<<call>>, <<>>, call.left, shared, <<WError(call.res.e)>>, Nil)
    ELSE IF call.res.kind = "other"
    THEN Handled(<<call>>, <<>>, call.left, shared, <<>>, call.res)
    ELSE Handled(<<call>>, <<>>, call.left, shared, <<WLine(OK, <<>>)>>, Nil)

\* The BYE and NOP cases of handleCmd.
byeCmd(p, st) == Handled(<<>>, <<>>, st, p.Handlers, <<WLine(OK, <<>>)>>, Nil)
nopCmd(p, st) == Handled(<<>>, <<>>, st, p.Handlers, <<WLine(OK, <<>>)>>, Nil)

\* A dispatcher that looks in the handler table before it tries the verbs
\* it treats itself.
handleCmd_tableFirst(p, st, cmd, params, o, order) ==
    IF cmd \in DOMAIN p.Handlers
    THEN handlerReply(invoke(p.Handlers[cmd], st, params, o), p.Handlers)
    ELSE CASE cmd = BYE -> byeCmd(p, st)
           [] cmd = NOP -> nopCmd(p, st)
           [] cmd = OPTION -> optionCmd(p, st, params, o)
           [] cmd = HELP -> helpCmd(p, st, params, order)
           [] OTHER -> unknownCmd(st, SharedTable(p, cmd))

handleCmd(p, st, cmd, params, o, order) ==
    CASE cmd = BYE -> byeCmd(p, st)
      [] cmd = NOP -> nopCmd(p, st)
      [] cmd = OPTION -> optionCmd(p, st, params, o)
      [] cmd = HELP -> helpCmd(p, st, params, order)
      [] OTHER ->
           LET table == LookupTable(p, cmd)
               shared == SharedTable(p, cmd)
           IN  IF cmd \notin DOMAIN table
               THEN unknownCmd(st, shared)
               ELSE handlerReply(invoke(table[cmd], st, params, o), shared)

\* Whether handling the command runs application code (a registered
\* handler or the option setter), whose outcome is then chosen freely.
RunsAppCode(p, cmd, params) ==
    CASE cmd = BYE -> FALSE
      [] cmd = NOP -> FALSE
      [] cmd = HELP -> FALSE
      [] cmd = OPTION -> p.HasSetOption /\ splitOption(params).ok
      [] OTHER -> cmd \in DOMAIN p.Handlers /\ p.Handlers[cmd] # "defaultResetCmd"

-----------------------------------------------------------------------------
(* Client: client.Session                                                  *)

INQUIRE == <<"I","N","Q","U","I","R","E">>
CAN == <<"C","A","N">>

ErrNotOk == OtherErr("not 'ok' response")
ErrMissingData(keyword) == OtherErr("missing data with keyword " \o Str(keyword))

\* What a call on the session comes to: it returns data and an error, or
\* it never returns; `out` are the lines it wrote and `rest` is the part of
\* the peer's lines it left unread.
Returned(data, err, out, rest) ==
    [done |-> TRUE, data |-> data, err |-> err, out |-> out, rest |-> rest]
Spins(out, rest) ==
    [done |-> FALSE, data |-> <<>>, err |-> Nil, out |-> out, rest |-> rest]

\* client.Init: takes the server's greeting from the pipe.
ClientInit(stream) ==
    LET r == ReadLine(stream)
    IN  Returned(<<>>, r.err, <<>>, After(stream))

\* A loop that puts a line feed behind every payload, collects status
\* lines as well and drops the last line feed.
RECURSIVE simpleLoop_separators(_, _, _)
simpleLoop_separators(stream, data, out) ==
    IF AtEOF(stream) THEN Spins(out, After(stream))
    ELSE LET r == ReadLine(stream)
             rest == After(stream)
         IN  IF r.err # Nil THEN Returned(<<>>, r.err, out, rest)
             ELSE IF r.cmd = OK
             THEN Returned(IF data # <<>> /\ data[Len(data)] = "\n"
                           THEN SubSeq(data, 1, Len(data) - 1) ELSE data,
                           Nil, out, rest)
             ELSE IF r.cmd = ERR THEN Returned(<<>>, DecodeErrCmd(r.params), out, rest)
             ELSE simpleLoop_separators(rest,
                      IF r.cmd \in {DataVerb, <<"S">>}
                      THEN data \o r.params \o <<"\n">> ELSE data,
                      out)

\* The loop of SimpleCmd.  At the end of the stream ReadLine returns an
\* empty command and no error, which matches no branch: the loop reads
\* again and the call never returns.
RECURSIVE simpleLoop(_, _, _)
simpleLoop(stream, data, out) ==
    IF AtEOF(stream) THEN Spins(out, After(stream))
    ELSE LET r == ReadLine(stream)
             rest == After(stream)
         IN  IF r.err # Nil THEN Returned(<<>>, r.err, out, rest)
             ELSE IF r.cmd = OK THEN Returned(data, Nil, out, rest)
             ELSE IF r.cmd = ERR THEN Returned(<<>>, DecodeErrCmd(r.params), out, rest)
             ELSE simpleLoop(rest,
                             IF r.cmd = DataVerb THEN data \o r.params ELSE data,
                             out)

\* Session.SimpleCmd; wfail is the number of the stream write that fails
\* during the call (0 = none).
SimpleCmd(cmd, params, stream, wfail) ==
    LET w == WriteLine(cmd, params, wfail = 1)
    IN  IF w.err # Nil THEN Returned(<<>>, w.err, w.out, stream)
        ELSE simpleLoop(stream, <<>>, w.out)

\* An answer that ends the inquiry instead of cancelling it.
inquireMissing_sendsEnd(keyword, out, rest, wfail) ==
    LET w == WriteLine(END, <<>>, wfail = Len(out) + 1)
    IN  IF w.err # Nil THEN Returned(<<>>, w.err, out \o w.out, rest)
        ELSE Returned(<<>>, ErrMissingData(keyword), out \o w.out, rest)

\* The answer to an INQUIRE whose keyword has no entry in the data map.
inquireMissing(keyword, out, rest, wfail) ==
    LET w == WriteLine(CAN, <<>>, wfail = Len(out) + 1)
    IN  IF w.err # Nil THEN Returned(<<>>, w.err, out \o w.out, rest)
        ELSE Returned(<<>>, ErrMissingData(keyword), out \o w.out, rest)

\* An answer that sends the data and no END.
inquireAnswer_noEnd(payload, out, wfail) ==
    LET d == WriteData(payload, wfail - Len(out))
    IN  [out |-> out \o d.out, err |-> d.err]

\* The answer to an INQUIRE whose keyword has a []byte entry: the data and
\* END.  Every line on the stream is one write, so the writes made so far
\* are Len(out).
inquireAnswer(payload, out, wfail) ==
    LET d == WriteData(payload, wfail - Len(out))
    IN  IF d.err # Nil THEN [out |-> out \o d.out, err |-> d.err]
        ELSE LET w == WriteLine(END, <<>>, wfail = Len(out) + Len(d.out) + 1)
             IN  [out |-> out \o d.out \o w.out, err |-> w.err]

\* The values of the data map of Transact: a []byte, an
\* encoding.TextMarshaler with what MarshalText returns (text, or an
\* error), or a value of any other type.
Bytes(b) == [type |-> "[]byte", text |-> b, merr |-> FALSE]
Marshaler(b, fails) == [type |-> "encoding.TextMarshaler", text |-> b, merr |-> fails]
Unsupported == [type |-> "string", text |-> <<>>, merr |-> FALSE]

ErrInvalidType == OtherErr("invalid type in data map value")
ErrMarshal == OtherErr("MarshalText failed")

\* The value gives Transact a payload to send.
HasPayload(v) ==
    v.type = "[]byte" \/ (v.type = "encoding.TextMarshaler" /\ ~v.merr)

\* What Transact returns for an entry that gives no payload: the error of
\* MarshalText or the complaint about the type, with nothing written.
inquireUnusable(v, out, rest) ==
    Returned(<<>>, IF v.type = "encoding.TextMarshaler" THEN ErrMarshal ELSE ErrInvalidType,
             out, rest)

\* The loop of Transact.
RECURSIVE transactLoop(_, _, _, _, _)
transactLoop(stream, data, rdata, out, wfail) ==
    IF AtEOF(stream) THEN Spins(out, After(stream))
    ELSE LET r == ReadLine(stream)
             rest == After(stream)
         IN  IF r.err # Nil THEN Returned(<<>>, r.err, out, rest)
             ELSE IF r.cmd = INQUIRE
             THEN IF r.params \notin DOMAIN data
                  THEN inquireMissing(r.params, out, rest, wfail)
                  ELSE IF ~HasPayload(data[r.params])
                  THEN inquireUnusable(data[r.params], out, rest)
                  ELSE LET a == inquireAnswer(data[r.params].text, out, wfail)
                       IN  IF a.err # Nil THEN Returned(<<>>, a.err, a.out, rest)
                           ELSE transactLoop(rest, data, rdata, a.out, wfail)
             ELSE IF r.cmd = OK THEN Returned(rdata, Nil, out, rest)
             ELSE IF r.cmd = ERR THEN Returned(<<>>, DecodeErrCmd(r.params), out, rest)
             ELSE transactLoop(rest, data,
                               IF r.cmd = DataVerb THEN rdata \o r.params ELSE rdata,
                               out, wfail)

\* Session.Transact
Transact(cmd, params, data, stream, wfail) ==
    LET w == WriteLine(cmd, params, wfail = 1)
    IN  IF w.err # Nil THEN Returned(<<>>, w.err, w.out, stream)
        ELSE transactLoop(stream, data, <<>>, w.out, wfail)

\* A Reset that reads until OK or ERR.
Reset_untilTerminal(stream, wfail) == SimpleCmd(RESET, <<>>, stream, wfail)

\* Session.Reset
Reset(stream, wfail) ==
    LET w == WriteLine(RESET, <<>>, wfail = 1)
    IN  IF w.err # Nil THEN Returned(<<>>, w.err, w.out, stream)
        ELSE LET r == ReadLine(stream)
                 rest == After(stream)
             IN  IF r.err # Nil THEN Returned(<<>>, r.err, w.out, rest)
                 ELSE IF r.cmd = ERR
                 THEN Returned(<<>>, DecodeErrCmd(r.params), w.out, rest)
                 ELSE IF r.cmd # OK THEN Returned(<<>>, ErrNotOk, w.out, rest)
                 ELSE Returned(<<>>, Nil, w.out, rest)

ErrClose == OtherErr("close failed")

\* A Close that takes the peer's acknowledgement before it closes the pipe.
Close_awaitsAck(stream, wfail, cfails) ==
    LET w == WriteLine(BYE, <<>>, wfail = 1)
    IN  IF w.err # Nil
        THEN [res |-> Returned(<<>>, w.err, w.out, stream), closed |-> FALSE]
        ELSE [res |-> Returned(<<>>, IF cfails THEN ErrClose ELSE Nil, w.out, After(stream)),
              closed |-> TRUE]

\* Session.Close: BYE, then Close on the pipe; `cfails` tells whether
\* closing the pipe fails.  `closed` is whether Close was called on the pipe.
Close(stream, wfail, cfails) ==
    LET w == WriteLine(BYE, <<>>, wfail = 1)
    IN  IF w.err # Nil
        THEN [res |-> Returned(<<>>, w.err, w.out, stream), closed |-> FALSE]
        ELSE [res |-> Returned(<<>>, IF cfails THEN ErrClose ELSE Nil, w.out, stream),
              closed |-> TRUE]

\* The parameters of the OPTION line Option sends: name + " = " + value.
OptionParams(name, value) == name \o <<" ","="," ">> \o value

\* An Option that reads until OK or ERR.
Option_untilTerminal(name, value, stream, wfail) ==
    SimpleCmd(OPTION, OptionParams(name, value), stream, wfail)

\* Session.Option
Option(name, value, stream, wfail) ==
    LET w == WriteLine(OPTION, OptionParams(name, value), wfail = 1)
    IN  IF w.err # Nil THEN Returned(<<>>, w.err, w.out, stream)
        ELSE LET r == ReadLine(stream)
                 rest == After(stream)
             IN  IF r.err # Nil THEN Returned(<<>>, r.err, w.out, rest)
                 ELSE IF r.cmd = ERR
                 THEN Returned(<<>>, DecodeErrCmd(r.params), w.out, rest)
                 ELSE Returned(<<>>, Nil, w.out, rest)

-----------------------------------------------------------------------------
(* What the peer sends                                                     *)

SP == <<" ">>

\* Command lines as they arrive (before upper-casing and unescaping).
CommandLines ==
    { NOP, BYE, RESET, GETPIN,
      <<"n","o","P">>,
      <<"R","e","s","e","t">>,
      <<"g","e","t","p","i","n">> \o SP \o <<"x">>,
      <<"F","O","O">>,
      OPTION,
      OPTION \o SP \o <<"a","=","b">>,
      OPTION \o SP \o <<"a","-","1">>,
      OPTION \o SP \o <<"=","b">>,
      OPTION \o SP \o <<"a","=","%","0","A","b">>,
      HELP,
      HELP \o SP \o GETPIN,
      HELP \o SP \o <<"g","e","t","p","i","n">>,
      HELP \o SP \o RESET,
      HELP \o SP \o <<"F","O","O">>,
      NOP \o SP \o <<"%","z">> }

\* Lines ReadLine skips.
SkippedLines == { <<"#"," ","c">>, <<"S"," ","x">>, <<" ">> }

\* What one call of ReadLine finds on the stream: skipped lines and then a
\* command line, the end of the stream or a read failure.
Streams ==
    {[lines |-> <<l>>, end |-> "more"] : l \in CommandLines}
    \cup {[lines |-> <<s, NOP>>, end |-> "more"] : s \in SkippedLines}
    \cup {[lines |-> <<<<"#"," ","c">>, <<"S"," ","x">>, <<" ">>, GETPIN>>, end |-> "more"]}
    \cup {[lines |-> <<>>, end |-> e] : e \in {"eof", "err"}}

NoStream == [lines |-> <<>>, end |-> "more"]

\* Keywords of INQUIRE lines.
PIN == <<"P","I","N">>
KEY == <<"K","E","Y">>

\* Lines a peer sends to a client, as they arrive.
ReplyLines ==
    { OK,
      <<"o","k">> \o SP \o <<"d","o","n","e">>,
      ERR \o SP \o <<"5">> \o SP \o <<"b","a","d">>,
      DataVerb \o SP \o <<"a","b">>,
      <<"d">> \o SP \o <<"c","%","2","5">>,
      DataVerb \o SP \o <<"%","z">>,
      <<"S"," ","x">>,
      INQUIRE \o SP \o PIN,
      INQUIRE \o SP \o KEY }

\* Longest sequence of lines the peer sends for one call of the client.
MaxScript == 3

RECURSIVE SeqsUpTo(_, _)
SeqsUpTo(S, n) ==
    IF n = 0 THEN {<<>>}
    ELSE LET shorter == SeqsUpTo(S, n - 1)
         IN  shorter \cup {Append(q, x) : q \in shorter, x \in S}

\* What the peer sends for one call and how its stream ends after that:
\* closed ("eof") or failing ("err").
Scripts ==
    {[lines |-> ls, end |-> e] : ls \in SeqsUpTo(ReplyLines, MaxScript), e \in {"eof", "err"}}

\* The command a client sends.
ClientCmd == <<"s","e","t","d","e","s","c">>
ClientParams == <<"a","%">>

\* The options a client sets: names and values.
OptionNames == { <<"t","t","y">> }
OptionValues == { <<>>, <<"a","%">> }

\* The data maps a caller gives Transact.
AnswerMaps ==
    { [k \in {} |-> Bytes(<<>>)],
      [k \in {PIN} |-> Bytes(<<"1","\n">>)],
      [k \in {PIN, KEY} |-> IF k = PIN THEN Bytes(<<"1","\n">>) ELSE Bytes(<<>>)],
      [k \in {PIN, KEY} |-> IF k = PIN THEN Marshaler(<<"1","\n">>, FALSE) ELSE Unsupported],
      [k \in {PIN} |-> Marshaler(<<>>, TRUE)] }

\* The stream writes of one call that can be the failing one.
MaxWriteFail == 3

\* A text of n characters c.
Rep(c, n) == [i \in 1..n |-> c]

\* How far from the length limits the long texts are taken.
Slack == 2

\* Ends of the long texts: nothing, or characters that escaping lengthens.
Tails == { <<>>, <<"%">>, <<"\n","\\">> }

\* Parameters given to WriteLine: around the longest that fits.
LineParams ==
    {<<>>} \cup {Rep("a", n) \o t : n \in (chunkLen - Slack)..(chunkLen + Slack), t \in Tails}

LineVerbs == { DataVerb, <<"o","k">> }

\* Payloads given to WriteData: empty and short ones, around one chunk,
\* around two chunks.
DataPayloads ==
    {Rep("a", n) \o t :
        n \in (0..Slack) \cup ((chunkLen - Slack)..(chunkLen + Slack))
                \cup ((2 * chunkLen - Slack)..(2 * chunkLen + Slack)),
        t \in Tails}

\* The chunk writes of one WriteData that can be the failing one.
MaxChunkFail == 2

\* Longest text given to the codec, apart from the texts of the tests.
MaxText == 3

\* Characters of the parameters a caller passes: plain ones, the four that
\* escaping replaces, and those that make up percent sequences.
RawChars == {"a", "+", "2", "5", "%", "\\", "\n", "\r"}

\* Parameters given to escapeParameters; the last two are those of
\* TestEscapeParams.
RawTexts ==
    SeqsUpTo(RawChars, MaxText)
    \cup { <<"\r","\n","%">>, <<"f","o","o","b","a","r","\\">> }

\* Characters of the parameters of a line as it arrives.
WireChars == {"a", "+", " ", "%", "0", "D", "z"}

\* Parameters given to unescapeParameters; the last two are those of
\* TestUnescapeParams.
WireTexts ==
    SeqsUpTo(WireChars, MaxText)
    \cup { <<"%","0","D","%","0","A","%","2","5","%","5","C">>, <<"+","+","+">> }

-----------------------------------------------------------------------------
(* State                                                                   *)

VARIABLES
    proto,   \* the blueprint shared by all connections (its Handlers map is shared)
    pc,      \* per connection: "idle", "serving" or "done" (Serve returned)
    state,   \* per connection: the state value of Serve while it runs
    ret,     \* per connection: the error Serve returned
    last,    \* the latest step of a Serve loop
    session, \* the client: "none", "open" (Init returned a session), "failed",
             \* "closed" (Close was called on the pipe)
    req,     \* the client: the call that is running or has returned, with its inputs
    wire,    \* the wire layer: the write being made on a Context, with its inputs
    pipe,    \* client and server on one stream: the lines the server has
             \* written and the client has not read
    listener, \* ServeNet: whether its loop runs (up) and whether an Accept
              \* has failed since it started
    codec    \* the escaping codec: the conversion being made, with its input

vars == <<proto, pc, state, ret, last, session, req, wire, pipe, listener, codec>>

NoStep ==
    [op |-> "none", conn |-> 0, in |-> NoStream, cmd |-> <<>>, params |-> <<>>,
     before |-> ZeroState, after |-> ZeroState,
     calls |-> <<>>, opts |-> <<>>, resp |-> <<>>, err |-> Nil,
     tried |-> 0, failed |-> 0]

NoCall ==
    [op |-> "none", cmd |-> <<>>, params |-> <<>>, data |-> <<>>,
     script |-> NoStream, wfail |-> 0, res |-> Returned(<<>>, Nil, <<>>, NoStream)]

NoWrite ==
    [op |-> "none", cmd |-> <<>>, input |-> <<>>, failAt |-> 0, out |-> <<>>, err |-> Nil]

\* No conversion is being made.  `of` is the text whose escaped form is
\* the input of an unescaping, when `chained`.
NoCodec ==
    [op |-> "none", input |-> <<>>, ok |-> TRUE, out |-> <<>>,
     of |-> <<>>, chained |-> FALSE]

\* ServeNet has entered its loop.
Listening == [up |-> TRUE, failed |-> FALSE]

\* No connection is accepted yet.
NoConnections ==
    /\ pc = [c \in Conns |-> "idle"]
    /\ state = [c \in Conns |-> ZeroState]
    /\ ret = [c \in Conns |-> Nil]
    /\ last = NoStep

\* No client session is constructed yet.
NoSession == session = "none" /\ req = NoCall

Init ==
    /\ proto \in Blueprints
    /\ NoConnections
    /\ NoSession
    /\ wire = NoWrite
    /\ pipe = <<>>
    /\ listener = Listening
    /\ codec = NoCodec

\* What ReadLine returns on each stream.
Reads == {[in |-> stream, res |-> ReadLine(stream)] : stream \in Streams}

\* A Serve that enters its loop whether or not the greeting was written.
ServeStart_ignoresWriteError(c) ==
    /\ pc[c] = "idle" /\ listener.up
    /\ \E failAt \in 0..1 :
       \E out \in {<<WLine(OK, proto.Greeting)>>} :
       \E werr \in {WriteErr(out, failAt)} :
         /\ state' = [state EXCEPT ![c] = DefaultState]
         /\ pc' = [pc EXCEPT ![c] = "serving"]
         /\ ret' = [ret EXCEPT ![c] = Nil]
         /\ last' = [NoStep EXCEPT !.op = "start", !.conn = c, !.after = DefaultState,
                                   !.resp = Written(out, failAt), !.err = werr,
                                   !.tried = Tried(out, failAt),
                                   !.failed = StopAt(out, failAt)]
    /\ UNCHANGED <<proto, session, req, wire, pipe, listener, codec>>

\* Serve up to its loop: the state factory and the greeting.
ServeStart(c) ==
    /\ pc[c] = "idle" /\ listener.up
    /\ \E failAt \in 0..1 :
       \E out \in {<<WLine(OK, proto.Greeting)>>} :
       \E werr \in {WriteErr(out, failAt)} :
         /\ state' = [state EXCEPT ![c] = IF werr = Nil THEN DefaultState ELSE ZeroState]
         /\ pc' = [pc EXCEPT ![c] = IF werr = Nil THEN "serving" ELSE "done"]
         /\ ret' = [ret EXCEPT ![c] = werr]
         /\ last' = [NoStep EXCEPT !.op = "start", !.conn = c, !.after = DefaultState,
                                   !.resp = Written(out, failAt), !.err = werr,
                                   !.tried = Tried(out, failAt),
                                   !.failed = StopAt(out, failAt)]
    /\ UNCHANGED <<proto, session, req, wire, pipe, listener, codec>>

\* One iteration of Serve's loop where ReadLine fails.
ServeReadFail(c) ==
    /\ pc[c] = "serving"
    /\ \E rd \in Reads :
       \E r \in {rd.res} :
         /\ r.err # Nil
         /\ pc' = [pc EXCEPT ![c] = "done"]
         /\ ret' = [ret EXCEPT ![c] = r.err]
         /\ state' = [state EXCEPT ![c] = ZeroState]
         /\ last' = [NoStep EXCEPT !.op = "read", !.conn = c, !.in = rd.in,
                                   !.before = state[c], !.after = state[c],
                                   !.err = r.err]
    /\ UNCHANGED <<proto, session, req, wire, pipe, listener, codec>>

\* One iteration of Serve's loop where ReadLine returns a command, which
\* handleCmd dispatches.
ServeCmd(c) ==
    /\ pc[c] = "serving"
    /\ \E rd \in Reads :
       \E r \in {rd.res} :
         /\ r.err = Nil
         /\ \E o \in IF RunsAppCode(proto, r.cmd, r.params) THEN Outcomes ELSE {NoOutcome} :
            \E order \in IF r.cmd = HELP /\ r.params = <<>>
                         THEN Orders(DOMAIN proto.Handlers) ELSE {<<>>} :
            \E h \in {handleCmd(proto, state[c], r.cmd, r.params, o, order)} :
            \E failAt \in 0..Len(h.out) :
            \E werr \in {WriteErr(h.out, failAt)} :
            \E err \in {IF werr # Nil THEN werr ELSE h.ret} :
              /\ proto' = [proto EXCEPT !.Handlers = h.handlers]
              /\ state' = [state EXCEPT ![c] = IF err = Nil THEN h.st ELSE ZeroState]
              /\ pc' = [pc EXCEPT ![c] = IF err = Nil THEN "serving" ELSE "done"]
              /\ ret' = [ret EXCEPT ![c] = err]
              /\ last' = [op |-> "cmd", conn |-> c, in |-> rd.in, cmd |-> r.cmd,
                          params |-> r.params, before |-> state[c], after |-> h.st,
                          calls |-> h.calls, opts |-> h.opts,
                          resp |-> Written(h.out, failAt), err |-> err,
                          tried |-> Tried(h.out, failAt),
                          failed |-> StopAt(h.out, failAt)]
    /\ UNCHANGED <<session, req, wire, pipe, listener, codec>>

Next ==
    \E c \in Conns : ServeStart(c) \/ ServeReadFail(c) \/ ServeCmd(c)

Spec == Init /\ [][Next]_vars

-----------------------------------------------------------------------------
(* The pinentry server: a handler that writes data itself                  *)

\* What callbacks.GetPIN hands back when it succeeds.
Pins == { <<>>, <<"1","2","%">> }

\* The GETPIN handler of pinentry past callbacks.GetPIN: it writes the PIN
\* with WriteData and returns nil whether or not the write failed.
pinentryGetpin(pass, failAt) ==
    [out |-> WriteData(pass, failAt).out,
     tried |-> IF WriteData(pass, failAt).err # Nil THEN failAt ELSE Len(DataLines(pass)),
     failed |-> IF WriteData(pass, failAt).err # Nil THEN failAt ELSE 0,
     res |-> Nil]

\* One iteration of Serve's loop on GETPIN where the callback returned a
\* PIN: the handler writes it, and handleCmd replies to what the handler
\* returned: OK for nil, nothing for an unstructured error, which it returns.
ServeGetpin(c) ==
    /\ pc[c] = "serving"
    /\ GETPIN \in DOMAIN proto.Handlers /\ proto.name = "pinentry"
    /\ \E rd \in Reads :
       \E r \in {rd.res} :
         /\ r.err = Nil /\ r.cmd = GETPIN
         /\ \E pass \in Pins :
            \E failAt \in 0..Len(DataLines(pass)), okFails \in BOOLEAN :
            \E hd \in {pinentryGetpin(pass, failAt)} :
            \E ws \in {IF hd.res = Nil THEN <<WLine(OK, <<>>)>> ELSE <<>>} :
            \E k \in {IF okFails THEN 1 ELSE 0} :
            \E err \in {IF hd.res # Nil THEN hd.res ELSE WriteErr(ws, k)} :
              /\ state' = [state EXCEPT ![c] = IF err = Nil THEN state[c] ELSE ZeroState]
              /\ pc' = [pc EXCEPT ![c] = IF err = Nil THEN "serving" ELSE "done"]
              /\ ret' = [ret EXCEPT ![c] = err]
              /\ last' = [op |-> "cmd", conn |-> c, in |-> rd.in, cmd |-> r.cmd,
                          params |-> r.params, before |-> state[c], after |-> state[c],
                          calls |-> <<[h |-> proto.Handlers[GETPIN], state |-> state[c],
                                      params |-> r.params, res |-> hd.res,
                                      left |-> state[c],
                                      dataFailed |-> hd.failed # 0]>>,
                          opts |-> <<>>,
                          resp |-> hd.out \o Written(ws, k), err |-> err,
                          tried |-> hd.tried + Tried(ws, k),
                          failed |-> IF hd.failed # 0 THEN hd.failed
                                     ELSE IF StopAt(ws, k) # 0 THEN hd.tried + StopAt(ws, k)
                                     ELSE 0]
    /\ UNCHANGED <<proto, session, req, wire, pipe, listener, codec>>

InitPinentry ==
    /\ proto = Setup("pinentry")
    /\ NoConnections
    /\ NoSession
    /\ wire = NoWrite
    /\ pipe = <<>>
    /\ listener = Listening
    /\ codec = NoCodec

NextPinentry ==
    \E c \in Conns :
        ServeStart(c) \/ ServeReadFail(c) \/ ServeCmd(c) \/ ServeGetpin(c)

SpecPinentry == InitPinentry /\ [][NextPinentry]_vars

-----------------------------------------------------------------------------
(* A blueprint that registers handlers under the built-in verbs            *)

\* One blueprint registers handlers under NOP, BYE and RESET, the other
\* under OPTION and HELP.
Shadowed ==
    { [name |-> "shadowed verbs", Greeting |-> <<"h","i">>, HandlersNil |-> FALSE,
       Handlers |-> (NOP :> "nopHandler") @@ (BYE :> "byeHandler")
                    @@ (RESET :> "resetState"),
       Help |-> NoHandlers, HasSetOption |-> FALSE],
      [name |-> "shadowed option", Greeting |-> <<"h","i">>, HandlersNil |-> FALSE,
       Handlers |-> (OPTION :> "optionHandler") @@ (HELP :> "helpHandler"),
       Help |-> NoHandlers, HasSetOption |-> FALSE] }

InitShadowed ==
    /\ proto \in Shadowed
    /\ NoConnections
    /\ NoSession
    /\ wire = NoWrite
    /\ pipe = <<>>
    /\ listener = Listening
    /\ codec = NoCodec

SpecShadowed == InitShadowed /\ [][Next]_vars

-----------------------------------------------------------------------------
(* The listener: ServeNet with failing accepts                             *)

ErrAccept == OtherErr("accept failed")

\* A ServeNet that returns the error of a failed Accept.
AcceptFails_returns ==
    /\ listener.up
    /\ listener' = [up |-> FALSE, failed |-> TRUE]
    /\ last' = [NoStep EXCEPT !.op = "accept", !.err = ErrAccept]
    /\ UNCHANGED <<proto, pc, state, ret, session, req, wire, pipe, codec>>

\* listener.Accept() fails: ServeNet logs the failure and goes on with its
\* loop.
AcceptFails ==
    /\ listener.up
    /\ listener' = [up |-> TRUE, failed |-> TRUE]
    /\ last' = [NoStep EXCEPT !.op = "accept", !.err = ErrAccept]
    /\ UNCHANGED <<proto, pc, state, ret, session, req, wire, pipe, codec>>

NextNet ==
    \/ \E c \in Conns : ServeStart(c) \/ ServeReadFail(c) \/ ServeCmd(c)
    \/ AcceptFails

\* ServeNet is started on one blueprint.
InitNet ==
    /\ proto = Setup("custom")
    /\ NoConnections
    /\ NoSession
    /\ wire = NoWrite
    /\ pipe = <<>>
    /\ listener = Listening
    /\ codec = NoCodec

SpecNet == InitNet /\ [][NextNet]_vars

-----------------------------------------------------------------------------
(* The client: one session, used by one caller                             *)

\* The caller has the result of its previous call and can make the next.
Ready == req.op = "none"

\* client.Init on what the peer sends first.
NewSession ==
    /\ session = "none" /\ Ready
    /\ \E script \in Scripts :
       \E res \in {ClientInit(script)} :
         /\ session' = IF res.err = Nil THEN "open" ELSE "failed"
         /\ req' = [NoCall EXCEPT !.op = "Init", !.script = script, !.res = res]
    /\ UNCHANGED <<proto, pc, state, ret, last, wire, pipe, listener, codec>>

CallSimpleCmd ==
    /\ session = "open" /\ Ready
    /\ \E script \in Scripts, wfail \in 0..1 :
         req' = [NoCall EXCEPT !.op = "SimpleCmd", !.cmd = ClientCmd,
                                !.params = ClientParams, !.script = script,
                                !.wfail = wfail,
                                !.res = SimpleCmd(ClientCmd, ClientParams, script, wfail)]
    /\ UNCHANGED <<proto, pc, state, ret, last, session, wire, pipe, listener, codec>>

CallTransact ==
    /\ session = "open" /\ Ready
    /\ \E script \in Scripts, data \in AnswerMaps, wfail \in 0..MaxWriteFail :
         req' = [NoCall EXCEPT !.op = "Transact", !.cmd = ClientCmd,
                                !.params = ClientParams, !.data = data,
                                !.script = script, !.wfail = wfail,
                                !.res = Transact(ClientCmd, ClientParams, data, script, wfail)]
    /\ UNCHANGED <<proto, pc, state, ret, last, session, wire, pipe, listener, codec>>

CallReset ==
    /\ session = "open" /\ Ready
    /\ \E script \in Scripts, wfail \in 0..1 :
         req' = [NoCall EXCEPT !.op = "Reset", !.cmd = RESET, !.script = script,
                                !.wfail = wfail, !.res = Reset(script, wfail)]
    /\ UNCHANGED <<proto, pc, state, ret, last, session, wire, pipe, listener, codec>>

CallOption ==
    /\ session = "open" /\ Ready
    /\ \E script \in Scripts, name \in OptionNames, value \in OptionValues, wfail \in 0..1 :
         req' = [NoCall EXCEPT !.op = "Option", !.cmd = OPTION, !.params = name,
                                !.data = value, !.script = script, !.wfail = wfail,
                                !.res = Option(name, value, script, wfail)]
    /\ UNCHANGED <<proto, pc, state, ret, last, session, wire, pipe, listener, codec>>

CallClose ==
    /\ session = "open" /\ Ready
    /\ \E script \in Scripts, wfail \in 0..1, cfails \in BOOLEAN :
       \E c \in {Close(script, wfail, cfails)} :
         /\ session' = IF c.closed THEN "closed" ELSE "open"
         /\ req' = [NoCall EXCEPT !.op = "Close", !.cmd = BYE, !.script = script,
                                   !.wfail = wfail, !.res = c.res]
    /\ UNCHANGED <<proto, pc, state, ret, last, wire, pipe, listener, codec>>

\* The call returns and the caller goes on with its result.
CallReturns ==
    /\ ~Ready /\ req.res.done
    /\ req' = NoCall
    /\ UNCHANGED <<proto, pc, state, ret, last, session, wire, pipe, listener, codec>>

InitClient ==
    /\ proto = Setup("bare")
    /\ NoConnections
    /\ NoSession
    /\ wire = NoWrite
    /\ pipe = <<>>
    /\ listener = Listening
    /\ codec = NoCodec

NextClient ==
    NewSession \/ CallSimpleCmd \/ CallTransact \/ CallReset \/ CallOption
    \/ CallClose \/ CallReturns

SpecClient == InitClient /\ [][NextClient]_vars

-----------------------------------------------------------------------------
(* The wire layer: writes on one Context                                   *)

CallWriteLine ==
    /\ wire.op = "none"
    /\ \E cmd \in LineVerbs, params \in LineParams, fails \in BOOLEAN :
       \E w \in {WriteLine(cmd, params, fails)} :
         wire' = [op |-> "WriteLine", cmd |-> cmd, input |-> params,
                  failAt |-> IF fails THEN 1 ELSE 0, out |-> w.out, err |-> w.err]
    /\ UNCHANGED <<proto, pc, state, ret, last, session, req, pipe, listener, codec>>

CallWriteData ==
    /\ wire.op = "none"
    /\ \E input \in DataPayloads, failAt \in 0..MaxChunkFail :
       \E w \in {WriteData(input, failAt)} :
         wire' = [op |-> "WriteData", cmd |-> DataVerb, input |-> input,
                  failAt |-> failAt, out |-> w.out, err |-> w.err]
    /\ UNCHANGED <<proto, pc, state, ret, last, session, req, pipe, listener, codec>>

\* The write returns to its caller.
WriteReturns ==
    /\ wire.op # "none"
    /\ wire' = NoWrite
    /\ UNCHANGED <<proto, pc, state, ret, last, session, req, pipe, listener, codec>>

InitWire ==
    /\ proto = Setup("bare")
    /\ NoConnections
    /\ NoSession
    /\ wire = NoWrite
    /\ pipe = <<>>
    /\ listener = Listening
    /\ codec = NoCodec

NextWire == CallWriteLine \/ CallWriteData \/ WriteReturns

SpecWire == InitWire /\ [][NextWire]_vars

-----------------------------------------------------------------------------
(* The escaping codec: what WriteLine and ReadLine do to parameters        *)

\* escapeParameters on the parameters of a line to write.
CallEscape ==
    /\ codec.op = "none"
    /\ \E x \in RawTexts :
         codec' = [NoCodec EXCEPT !.op = "escape", !.input = x,
                                  !.out = escapeParameters(x)]
    /\ UNCHANGED <<proto, pc, state, ret, last, session, req, wire, pipe, listener>>

\* unescapeParameters on the parameters of a line a peer wrote with
\* escapeParameters.
CallUnescapeEscaped ==
    /\ codec.op = "escape"
    /\ \E u \in {unescapeParameters(codec.out)} :
         codec' = [op |-> "unescape", input |-> codec.out, ok |-> u.ok, out |-> u.val,
                   of |-> codec.input, chained |-> TRUE]
    /\ UNCHANGED <<proto, pc, state, ret, last, session, req, wire, pipe, listener>>

\* unescapeParameters on the parameters of any line that arrives.
CallUnescape ==
    /\ codec.op = "none"
    /\ \E t \in WireTexts :
       \E u \in {unescapeParameters(t)} :
         codec' = [NoCodec EXCEPT !.op = "unescape", !.input = t, !.ok = u.ok,
                                  !.out = u.val]
    /\ UNCHANGED <<proto, pc, state, ret, last, session, req, wire, pipe, listener>>

\* The conversion returns to its caller.
CodecReturns ==
    /\ codec.op # "none"
    /\ codec' = NoCodec
    /\ UNCHANGED <<proto, pc, state, ret, last, session, req, wire, pipe, listener>>

InitCodec ==
    /\ proto = Setup("bare")
    /\ NoConnections
    /\ NoSession
    /\ wire = NoWrite
    /\ pipe = <<>>
    /\ listener = Listening
    /\ codec = NoCodec

NextCodec == CallEscape \/ CallUnescapeEscaped \/ CallUnescape \/ CodecReturns

SpecCodec == InitCodec /\ [][NextCodec]_vars

-----------------------------------------------------------------------------
(* Client and server on one stream                                         *)

\* The text a written line is on the stream, without its line feed: the
\* verb, one space, the escaped parameters.
RawLine(l) ==
    l.cmd \o <<" ">>
    \o (IF l.e # NoError THEN escapeParameters(ErrParams(l.e)) ELSE l.text)

RawLines(ls) == [i \in 1..Len(ls) |-> RawLine(ls[i])]

\* The connection the client is on.
PairConn == 1

\* Lines left unread on the stream beyond which the client makes no call.
MaxPipe == 2

\* The calls the client makes on the session.
PairCalls ==
    {[op |-> "SimpleCmd", cmd |-> c, params |-> <<>>, name |-> <<>>, value |-> <<>>] :
        c \in {<<"g","e","t","p","i","n">>, NOP, <<"F","O","O">>}}
    \cup {[op |-> "SimpleCmd", cmd |-> HELP, params |-> GETPIN, name |-> <<>>, value |-> <<>>]}
    \cup {[op |-> "Option", cmd |-> OPTION, params |-> OptionParams(n, v),
           name |-> n, value |-> v] : n \in OptionNames, v \in {<<"a","%">>}}
    \cup {[op |-> "Reset", cmd |-> RESET, params |-> <<>>, name |-> <<>>, value |-> <<>>],
          [op |-> "Transact", cmd |-> <<"g","e","t","p","i","n">>, params |-> <<>>,
           name |-> <<>>, value |-> <<>>]}

\* The call as the session makes it.
ClientCall(call, stream, wfail) ==
    IF call.op = "Option" THEN Option(call.name, call.value, stream, wfail)
    ELSE IF call.op = "Reset" THEN Reset(stream, wfail)
    ELSE IF call.op = "Transact"
    THEN Transact(call.cmd, call.params, [k \in {} |-> Bytes(<<>>)], stream, wfail)
    ELSE SimpleCmd(call.cmd, call.params, stream, wfail)

\* What the client finds on the stream: the lines not read yet, and behind
\* them either the closed stream (Serve has returned) or nothing until the
\* client sends its next command (Serve waits in ReadLine); a call that
\* reads beyond the lines does not return in either case.
Incoming(lines) == [lines |-> lines, end |-> "eof"]

\* ServeNet accepts the client's connection and Serve greets it.
PairAccept ==
    /\ pc[PairConn] = "idle" /\ session = "none" /\ listener.up
    /\ \E failAt \in 0..1 :
       \E out \in {<<WLine(OK, proto.Greeting)>>} :
       \E werr \in {WriteErr(out, failAt)} :
         /\ state' = [state EXCEPT ![PairConn] = IF werr = Nil THEN DefaultState ELSE ZeroState]
         /\ pc' = [pc EXCEPT ![PairConn] = IF werr = Nil THEN "serving" ELSE "done"]
         /\ ret' = [ret EXCEPT ![PairConn] = werr]
         /\ last' = [NoStep EXCEPT !.op = "start", !.conn = PairConn,
                                   !.after = DefaultState,
                                   !.resp = Written(out, failAt), !.err = werr,
                                   !.tried = Tried(out, failAt),
                                   !.failed = StopAt(out, failAt)]
         /\ pipe' = RawLines(Written(out, failAt))
    /\ UNCHANGED <<proto, session, req, wire, listener, codec>>

\* client.Init on the stream to the server.
PairInit ==
    /\ session = "none" /\ Ready /\ pc[PairConn] # "idle"
    /\ \E res \in {ClientInit(Incoming(pipe))} :
         /\ session' = IF res.err = Nil THEN "open" ELSE "failed"
         /\ req' = [NoCall EXCEPT !.op = "Init", !.script = Incoming(pipe), !.res = res]
         /\ pipe' = res.rest.lines
    /\ UNCHANGED <<proto, pc, state, ret, last, wire, listener, codec>>

\* One call of the client and the iteration of Serve's loop that takes its
\* command line: the client writes the line, Serve reads and handles it and
\* writes its answer behind the lines still unread, the client reads.
PairCall ==
    /\ session = "open" /\ Ready
    /\ pc[PairConn] = "serving"
    /\ Len(pipe) <= MaxPipe
    /\ \E call \in PairCalls, wfail \in 0..1 :
       \E w \in {WriteLine(call.cmd, call.params, wfail = 1)} :
         IF w.err # Nil
         THEN /\ req' = [NoCall EXCEPT !.op = call.op, !.cmd = call.cmd,
                                        !.params = call.params, !.script = Incoming(pipe),
                                        !.wfail = wfail,
                                        !.res = ClientCall(call, Incoming(pipe), wfail)]
              /\ UNCHANGED <<proto, pc, state, ret, last, pipe, listener, codec>>
         ELSE
           \E sent \in {[lines |-> RawLines(w.out), end |-> "more"]} :
           \E r \in {ReadLine(sent)} :
           \E o \in IF r.err = Nil /\ RunsAppCode(proto, r.cmd, r.params)
                     THEN Outcomes ELSE {NoOutcome} :
           \E order \in IF r.cmd = HELP /\ r.params = <<>>
                        THEN Orders(DOMAIN proto.Handlers) ELSE {<<>>} :
           \E h \in {IF r.err # Nil
                      THEN Handled(<<>>, <<>>, state[PairConn], proto.Handlers, <<>>, r.err)
                      ELSE handleCmd(proto, state[PairConn], r.cmd, r.params, o, order)} :
           \E failAt \in 0..Len(h.out) :
           \E werr \in {WriteErr(h.out, failAt)} :
           \E err \in {IF werr # Nil THEN werr ELSE h.ret} :
           \E found \in {Incoming(pipe \o RawLines(Written(h.out, failAt)))} :
           \E res \in {ClientCall(call, found, wfail)} :
             /\ proto' = [proto EXCEPT !.Handlers = h.handlers]
             /\ state' = [state EXCEPT ![PairConn] = IF err = Nil THEN h.st ELSE ZeroState]
             /\ pc' = [pc EXCEPT ![PairConn] = IF err = Nil THEN "serving" ELSE "done"]
             /\ ret' = [ret EXCEPT ![PairConn] = err]
             /\ last' = [op |-> IF r.err # Nil THEN "read" ELSE "cmd",
                         conn |-> PairConn, in |-> sent, cmd |-> r.cmd,
                         params |-> r.params, before |-> state[PairConn], after |-> h.st,
                         calls |-> h.calls, opts |-> h.opts,
                         resp |-> Written(h.out, failAt), err |-> err,
                         tried |-> Tried(h.out, failAt),
                         failed |-> StopAt(h.out, failAt)]
             /\ req' = [NoCall EXCEPT !.op = call.op, !.cmd = call.cmd,
                                       !.params = call.params, !.script = found,
                                       !.wfail = wfail, !.res = res]
             /\ pipe' = res.rest.lines
    /\ UNCHANGED <<session, wire, listener, codec>>

NextPair == PairAccept \/ PairInit \/ PairCall \/ CallReturns

SpecPair == Init /\ [][NextPair]_vars

-----------------------------------------------------------------------------
(* Vocabulary of the properties                                            *)

OKLine == Encode(WLine(OK, <<>>))
ErrLine(e) == Encode(WError(e))
CommentLine(text) == Encode(WriteComment(text))

IsPrefix(a, b) == Len(a) <= Len(b) /\ a = SubSeq(b, 1, Len(a))

\* The latest step handled a command (ReadLine succeeded).
CmdStep == last.op = "cmd"

\* The verbs handleCmd treats itself.
BuiltinVerbs == {NOP, BYE, RESET, OPTION, HELP}

\* The handler and help tables as registered at setup.
Registered == Setup(proto.name).Handlers
RegisteredHelp == Setup(proto.name).Help

\* The dispatcher answered the latest command with exactly the lines
\* `lines`: nothing else reached the stream, and all of them did unless a
\* write failed.
Answered(lines) ==
    /\ IsPrefix(last.resp, lines)
    /\ last.err = Nil => last.resp = lines

\* The Serve loop of the latest step's connection goes on to the next
\* ReadLine, with the state the step left, unless a write failed.
KeepsServing ==
    last.err = Nil => pc[last.conn] = "serving" /\ state[last.conn] = last.after

\* Serve of the latest step's connection returned err and reads no more;
\* its state is gone with it.
Terminated(err) == pc[last.conn] = "done" /\ ret[last.conn] = err

\* The key[=| ]value pattern of OPTION: a non-empty key of word characters,
\* digits and hyphens, then nothing or one separator and a value of one line.
MatchesOptionPattern(params) ==
    \E k \in 1..Len(params) :
        /\ \A i \in 1..k : IsKeyChar(params[i])
        /\ \/ k = Len(params)
           \/ /\ params[k + 1] \in {" ", "="}
              /\ \A i \in (k + 2)..Len(params) : params[i] # "\n"

\* Number of lines of the latest response that equal `line`.
CountLines(line) == Cardinality({i \in 1..Len(last.resp) : last.resp[i] = line})

-----------------------------------------------------------------------------
(* Properties                                                              *)

\* C1: a handler that returns a structured Error is answered with exactly
\* one ERR line carrying that error and no OK, and the loop keeps serving;
\* a handler that succeeds is answered with exactly one OK line.
C1_HandlerResultReported ==
    (CmdStep /\ Len(last.calls) = 1) =>
        LET call == last.calls[1]
        IN  /\ call.res.kind = "Error" =>
                Answered(<<ErrLine(call.res.e)>>) /\ KeepsServing
            /\ call.res.kind = "nil" =>
                Answered(<<OKLine>>) /\ KeepsServing

C1_Witness ==
    /\ CmdStep /\ last.cmd = GETPIN /\ Len(last.calls) = 1
    /\ last.calls[1].res = PErr(ErrHandler)
    /\ last.resp = <<ErrLine(ErrHandler)>>
    /\ pc[last.conn] = "serving"

\* C2: a handler that fails with an unstructured error is answered with
\* neither ERR nor OK, the loop ends and Serve returns that error.
C2_FatalHandlerErrorTerminates ==
    (CmdStep /\ Len(last.calls) = 1 /\ last.calls[1].res.kind = "other") =>
        /\ last.resp = <<>>
        /\ Terminated(last.calls[1].res)

C2_Witness ==
    /\ CmdStep /\ Len(last.calls) = 1
    /\ last.calls[1].res = OtherErr("handler failed")
    /\ pc[last.conn] = "done"

\* C3: BYE is answered with OK and ends the Serve loop: Serve returns
\* without error and no later command of the connection is read.
C3_ByeTerminates ==
    (CmdStep /\ last.cmd = BYE /\ last.err = Nil) =>
        /\ last.resp = <<OKLine>>
        /\ last.calls = <<>>
        /\ Terminated(Nil)

\* C4: a verb that is neither built in nor registered invokes no handler,
\* leaves the connection state unchanged, is answered with the ERR line of
\* "unknown command", and the loop continues.
C4_UnknownCommand ==
    (CmdStep /\ last.cmd \notin BuiltinVerbs /\ last.cmd \notin DOMAIN Registered) =>
        /\ last.calls = <<>> /\ last.opts = <<>>
        /\ last.after = last.before
        /\ Answered(<<ErrLine(ErrUnknownCmd)>>)
        /\ KeepsServing

C4_Witness ==
    /\ CmdStep /\ last.cmd = <<"F","O","O">>
    /\ last.resp = <<ErrLine(ErrUnknownCmd)>>
    /\ pc[last.conn] = "serving"

\* C5: without a registered RESET handler, RESET replaces the connection
\* state with its zero value and is answered with OK.
C5_DefaultResetZeroesState ==
    (CmdStep /\ last.cmd = RESET /\ RESET \notin DOMAIN Registered) =>
        /\ last.after = ZeroState
        /\ Answered(<<OKLine>>)
        /\ KeepsServing

\* C6: with a registered RESET handler, RESET invokes that handler exactly
\* once, answers by the handler result contract, and the connection state
\* afterwards is what the handler left.
C6_CustomResetOwnsState ==
    (CmdStep /\ last.cmd = RESET /\ RESET \in DOMAIN Registered) =>
        /\ Len(last.calls) = 1
        /\ last.calls[1].h = Registered[RESET]
        /\ last.calls[1].state = last.before
        /\ last.after = last.calls[1].left
        /\ last.calls[1].res.kind = "nil" => Answered(<<OKLine>>) /\ KeepsServing
        /\ last.calls[1].res.kind = "Error" =>
              Answered(<<ErrLine(last.calls[1].res.e)>>) /\ KeepsServing
        /\ last.calls[1].res.kind = "other" =>
              last.resp = <<>> /\ Terminated(last.calls[1].res)

C6_Witness ==
    /\ CmdStep /\ last.cmd = RESET /\ RESET \in DOMAIN Registered
    /\ Len(last.calls) = 1
    /\ last.before = DefaultState
    /\ state[last.conn] = MutatedState
    /\ pc[last.conn] = "serving"
    /\ last.resp = <<OKLine>>

\* An OPTION command is turned down with error e: the setter is not invoked,
\* the state is unchanged, the answer is the ERR line of e, the loop continues.
OptionRejected(e) ==
    /\ last.opts = <<>> /\ last.calls = <<>>
    /\ last.after = last.before
    /\ Answered(<<ErrLine(e)>>)
    /\ KeepsServing

\* C7 as stated: for every blueprint an OPTION that does not match the
\* pattern is answered with "invalid value", and an OPTION that matches it
\* on a blueprint without option setter with "not implemented".
C7_AsStated ==
    (CmdStep /\ last.cmd = OPTION) =>
        /\ ~MatchesOptionPattern(last.params) => OptionRejected(ErrInvOption)
        /\ (MatchesOptionPattern(last.params) /\ ~proto.HasSetOption) =>
              OptionRejected(ErrNotImpl)

\* C7, amended: on a blueprint with an option setter an OPTION that does
\* not match the pattern is answered with "invalid value" and the setter is
\* not invoked; on a blueprint without option setter every OPTION, matching
\* or not, is answered with "not implemented"; in both cases the state is
\* unchanged and the loop continues.
C7_OptionRejected ==
    (CmdStep /\ last.cmd = OPTION) =>
        /\ (proto.HasSetOption /\ ~MatchesOptionPattern(last.params)) =>
              OptionRejected(ErrInvOption)
        /\ ~proto.HasSetOption => OptionRejected(ErrNotImpl)

C7_Witness ==
    /\ CmdStep /\ last.cmd = OPTION /\ proto.HasSetOption
    /\ last.params = <<"a","=","\n","b">>
    /\ last.resp = <<ErrLine(ErrInvOption)>>
    /\ pc[last.conn] = "serving"

\* C8: a matching OPTION on a blueprint with an option setter invokes the
\* setter once with (state, key, value); success is answered with OK, a
\* structured Error with that ERR and the loop continues, any other failure
\* with nothing and ends the loop with that failure.
C8_SetterContract ==
    (CmdStep /\ last.cmd = OPTION /\ proto.HasSetOption
        /\ MatchesOptionPattern(last.params)) =>
        /\ Len(last.opts) = 1
        /\ last.opts[1].state = last.before
        /\ last.opts[1].res.kind = "nil" => Answered(<<OKLine>>) /\ KeepsServing
        /\ last.opts[1].res.kind = "Error" =>
              Answered(<<ErrLine(last.opts[1].res.e)>>) /\ KeepsServing
        /\ last.opts[1].res.kind = "other" =>
              last.resp = <<>> /\ Terminated(last.opts[1].res)

\* C9: HELP without parameters emits one comment line per built-in verb and
\* one per verb registered in the blueprint, then one OK, whatever was
\* processed before on any connection.
C9_HelpListsVerbs ==
    (CmdStep /\ last.cmd = HELP /\ last.params = <<>> /\ last.err = Nil) =>
        /\ \A v \in BuiltinVerbs \cup DOMAIN Registered :
              CountLines(CommentLine(v)) =
                  (IF v \in BuiltinVerbs THEN 1 ELSE 0)
                  + (IF v \in DOMAIN Registered THEN 1 ELSE 0)
        /\ CountLines(OKLine) = 1
        /\ last.resp[Len(last.resp)] = OKLine

\* C10: HELP <verb> emits the help lines registered for the verb, matched
\* case-insensitively, as comment lines in their order and then OK, or
\* answers "not found" when the verb has none; no handler runs and the loop
\* continues.
C10_HelpForVerb ==
    (CmdStep /\ last.cmd = HELP /\ last.params # <<>>) =>
        /\ last.calls = <<>> /\ last.opts = <<>>
        /\ KeepsServing
        /\ IF ToUpper(last.params) \in DOMAIN RegisteredHelp
           THEN Answered([i \in 1..Len(RegisteredHelp[ToUpper(last.params)]) |->
                             CommentLine(RegisteredHelp[ToUpper(last.params)][i])]
                         \o <<OKLine>>)
           ELSE Answered(<<ErrLine(ErrHelpNotFound)>>)

\* The line Serve greets with.
GreetingLine == Encode(WLine(OK, proto.Greeting))

\* C11: on every connection the first step of Serve writes the greeting
\* `OK <greeting>` and nothing else, no command is read and no handler runs
\* before it is written, and when that write fails Serve returns the
\* failure: it reads no command and invokes no handler, then or later.
C11_GreetingFirst ==
    [][LET c == last'.conn
       IN  /\ pc[c] # "done"
           /\ last'.op \in {"read", "cmd"} => pc[c] = "serving"
           /\ pc[c] = "idle" =>
                 /\ last'.op = "start" /\ last'.calls = <<>>
                 /\ IF last'.err = Nil
                    THEN last'.resp = <<GreetingLine>> /\ pc'[c] = "serving"
                    ELSE /\ last'.resp = <<>>
                         /\ pc'[c] = "done" /\ ret'[c] = last'.err]_vars

C11_Witness ==
    /\ last.op = "start" /\ last.err = ErrWrite /\ last.resp = <<>>
    /\ Terminated(ErrWrite)
    /\ \E d \in Conns : pc[d] = "serving"

\* The lines that are no commands: blank lines, comments, status lines.
Informational(line) ==
    IsBlank(line) \/ HasPrefix(line, <<"#">>) \/ HasPrefix(line, <<"S", " ">>)

\* The text has a % that is not followed by two hexadecimal digits.
MalformedEscape(text) ==
    \E i \in 1..Len(text) :
        /\ text[i] = "%"
        /\ ~(i + 2 <= Len(text) /\ IsHex(text[i + 1]) /\ IsHex(text[i + 2]))

\* The parameters of a line as they arrive: what follows the first space.
RawParams(line) ==
    IF IndexOf(line, " ") = 0 THEN <<>>
    ELSE SubSeq(line, IndexOf(line, " ") + 1, Len(line))

\* The positions of the lines of a stream that are commands or responses.
Genuine(lines) == {i \in 1..Len(lines) : ~Informational(lines[i])}

First(S) == CHOOSE i \in S : \A j \in S : i <= j

\* Reading the next command from the stream fails: the stream is closed or
\* breaks before a command line arrives, or the parameters of that line
\* have a malformed escape.
ReadFails(stream) ==
    IF Genuine(stream.lines) = {}
    THEN stream.end \in {"eof", "err"}
    ELSE MalformedEscape(RawParams(stream.lines[First(Genuine(stream.lines))]))

\* The latest step of Serve's loop, whatever ReadLine returned.
LoopStep == last.op \in {"read", "cmd"}

\* C12: when reading the next command fails (read failure, end of the
\* stream, malformed escape), Serve writes nothing, invokes nothing and
\* returns the failure to its caller: the loop has ended.
C12_ReadFailureTerminates ==
    (LoopStep /\ ReadFails(last.in)) =>
        /\ last.resp = <<>> /\ last.calls = <<>> /\ last.opts = <<>>
        /\ last.err # Nil
        /\ Terminated(last.err)

\* The bytes of the line for a verb and parameters: the upper-cased verb,
\* one space, the escaped parameters, the line feed.
EncodedLen(cmd, params) ==
    Len(ToUpper(cmd)) + 1 + Len(escapeParameters(params)) + 1

\* C13: WriteLine rejects a line whose encoded length is over 1000 bytes
\* with the length error and nothing written, and every line it writes has
\* an encoded length of at most 1000 bytes.
C13_LineLengthLimit ==
    wire.op = "WriteLine" =>
        /\ EncodedLen(wire.cmd, wire.input) > MaxLineLen =>
              wire.out = <<>> /\ wire.err = ErrTooLong
        /\ \A i \in 1..Len(wire.out) : LineLen(wire.out[i]) <= MaxLineLen

\* The texts of lines, one after the other.
RECURSIVE Joined(_)
Joined(lines) ==
    IF lines = <<>> THEN <<>> ELSE Head(lines).text \o Joined(Tail(lines))

\* C14: WriteData writes no line for an empty payload; the lines it writes
\* are D lines with a chunk each, of at most 1000 bytes with `D ` and the
\* line feed, and the chunks in the order written make up the escaped
\* payload: all of it when no write fails, its beginning when one does.
C14_DataChunks ==
    wire.op = "WriteData" =>
        /\ wire.input = <<>> => wire.out = <<>>
        /\ \A i \in 1..Len(wire.out) :
              /\ wire.out[i].cmd = DataVerb /\ wire.out[i].text # <<>>
              /\ LineLen(wire.out[i]) <= MaxLineLen
        /\ IF wire.err = Nil
           THEN Joined(wire.out) = escapeParameters(wire.input)
           ELSE IsPrefix(Joined(wire.out), escapeParameters(wire.input))

C14_Witness ==
    /\ wire.op = "WriteData" /\ wire.err = Nil
    /\ Len(wire.out) = 3
    /\ Len(escapeParameters(wire.input)) > Len(wire.input)
    /\ LineLen(wire.out[1]) = MaxLineLen

\* The verb of a line as it arrives: what precedes the first space.
RawVerb(line) ==
    IF IndexOf(line, " ") = 0 THEN line
    ELSE SubSeq(line, 1, IndexOf(line, " ") - 1)

\* The latest step read lines that are no commands and then a command line.
ReadPastInformational ==
    /\ LoopStep
    /\ \E i \in 1..Len(last.in.lines) : Informational(last.in.lines[i])
    /\ Genuine(last.in.lines) # {}

\* C15: blank lines, comment lines and status lines are never taken for a
\* command.  A step of the server that reads such lines and then a command
\* line dispatches that command and nothing else: the verb handled is the
\* command line's, a handler runs only if that verb has one and then once,
\* and the only response line is the answer to that command.
C15_InformationalSkipped ==
    ReadPastInformational =>
        LET line == last.in.lines[First(Genuine(last.in.lines))]
        IN  /\ last.op = "cmd"
            /\ last.cmd = ToUpper(RawVerb(line))
            /\ ~Informational(last.cmd)
            /\ Len(last.calls) = (IF last.cmd \in DOMAIN Registered THEN 1 ELSE 0)
            /\ KeepsServing
            /\ IF Len(last.calls) = 1
               THEN CASE last.calls[1].res.kind = "nil" -> Answered(<<OKLine>>)
                      [] last.calls[1].res.kind = "Error" ->
                             Answered(<<ErrLine(last.calls[1].res.e)>>)
                      [] OTHER -> last.resp = <<>>
               ELSE IF last.cmd = NOP THEN Answered(<<OKLine>>)
               ELSE Answered(<<ErrLine(ErrUnknownCmd)>>)

C15_Witness ==
    /\ ReadPastInformational
    /\ Len(last.in.lines) = 4 /\ Cardinality(Genuine(last.in.lines)) = 1
    /\ last.cmd = GETPIN
    /\ Len(last.calls) = 1 /\ last.calls[1].res = Nil
    /\ last.resp = <<OKLine>>
    /\ pc[last.conn] = "serving"

\* The lines of a stream behind its first command or response line
\* (none when there is no such line).
BehindFirst(lines) ==
    IF Genuine(lines) = {} THEN <<>>
    ELSE SubSeq(lines, First(Genuine(lines)) + 1, Len(lines))

\* The first command or response line of the stream has this verb.
FirstVerbIs(stream, verb) ==
    /\ Genuine(stream.lines) # {}
    /\ ToUpper(RawVerb(stream.lines[First(Genuine(stream.lines))])) = verb

\* Reading the first line fails with an I/O failure (the stream breaks
\* before the line arrives) or a decode failure.
ReadBreaks(stream) ==
    IF Genuine(stream.lines) = {}
    THEN stream.end = "err"
    ELSE MalformedEscape(RawParams(stream.lines[First(Genuine(stream.lines))]))

\* C16: constructing a session reads one line (the first that is a
\* response) and writes nothing; it returns no session when that read fails
\* with an I/O or a decode failure, and it returns a session only if that
\* line is not ERR.
C16_Construction ==
    req.op = "Init" =>
        /\ req.res.out = <<>>
        /\ req.res.rest.lines = BehindFirst(req.script.lines)
        /\ ReadBreaks(req.script) => session = "failed" /\ req.res.err # Nil
        /\ session = "open" => ~FirstVerbIs(req.script, ERR)

\* The line is a response: not blank, no comment, no status line.
IsResponse(line) == ~Informational(line)

\* The line ends a command: its verb is OK or ERR.
IsTerminal(line) == IsResponse(line) /\ ToUpper(RawVerb(line)) \in {OK, ERR}

\* The position of the first line that ends a command, 0 when none does.
TerminalAt(lines) ==
    IF \E i \in 1..Len(lines) : IsTerminal(lines[i])
    THEN First({i \in 1..Len(lines) : IsTerminal(lines[i])})
    ELSE 0

\* The parameters of a line as the sender gave them.
Payload(line) == unescapeParameters(RawParams(line)).val

\* The payloads of the D lines among the lines, one after the other.
RECURSIVE DataOf(_)
DataOf(lines) ==
    IF lines = <<>> THEN <<>>
    ELSE (IF IsResponse(Head(lines)) /\ ToUpper(RawVerb(Head(lines))) = DataVerb
          THEN Payload(Head(lines)) ELSE <<>>)
         \o DataOf(Tail(lines))

\* The peer answers the call: among its lines there is one that ends the
\* command, and that line and the lines before it can be decoded.
Answers(stream) ==
    /\ TerminalAt(stream.lines) # 0
    /\ \A i \in 1..TerminalAt(stream.lines) : ~MalformedEscape(RawParams(stream.lines[i]))

\* The call of the client has read the peer's lines up to the first that
\* ends the command and has returned: on OK the payloads of the D lines
\* before it, joined as they came, on ERR the error of that line.
ReturnsAnswer ==
    LET t == TerminalAt(req.script.lines)
        line == req.script.lines[t]
    IN  /\ req.res.done
        /\ req.res.rest.lines = SubSeq(req.script.lines, t + 1, Len(req.script.lines))
        /\ IF ToUpper(RawVerb(line)) = OK
           THEN /\ req.res.err = Nil
                /\ req.res.data = DataOf(SubSeq(req.script.lines, 1, t - 1))
           ELSE /\ req.res.err = DecodeErrCmd(Payload(line))
                /\ req.res.err.kind = "Error"

IsInquire(line) == IsResponse(line) /\ ToUpper(RawVerb(line)) = INQUIRE

ENDLine == Encode(WLine(END, <<>>))
CANLine == Encode(WLine(CAN, <<>>))

\* The lines that answer the inquiries among the lines from the data map:
\* for each inquiry, in order, its payload as D lines and one END.
RECURSIVE InquiryAnswers(_, _)
InquiryAnswers(lines, data) ==
    IF lines = <<>> THEN <<>>
    ELSE (IF IsInquire(Head(lines))
          THEN DataLines(data[Payload(Head(lines))].text) \o <<ENDLine>>
          ELSE <<>>)
         \o InquiryAnswers(Tail(lines), data)

\* The inquiries the peer makes before it ends the command.
Inquiries(stream) ==
    {i \in 1..TerminalAt(stream.lines) : IsInquire(stream.lines[i])}

\* C18: in Transact every INQUIRE whose keyword is in the data map is
\* answered with the payload as D lines and exactly one END, and the call
\* goes on reading; however many inquiries there are, it completes at the
\* next OK with the D data received (at ERR with the error).
C18_InquireAnswered ==
    (/\ req.op = "Transact" /\ req.wfail = 0 /\ Answers(req.script)
     /\ \A i \in Inquiries(req.script) :
           /\ Payload(req.script.lines[i]) \in DOMAIN req.data
           /\ HasPayload(req.data[Payload(req.script.lines[i])]))
    =>  /\ req.res.out =
              <<Encode(WLine(req.cmd, req.params))>>
              \o InquiryAnswers(SubSeq(req.script.lines, 1, TerminalAt(req.script.lines)),
                                req.data)
        /\ ReturnsAnswer

C18_Witness ==
    /\ req.op = "Transact" /\ req.wfail = 0
    /\ Len(req.script.lines) = 3
    /\ Cardinality(Inquiries(req.script)) = 2
    /\ ToUpper(RawVerb(req.script.lines[3])) = OK
    /\ req.res.done /\ req.res.err = Nil
    /\ req.res.out = << Encode(WLine(req.cmd, req.params)),
                        [cmd |-> DataVerb, text |-> <<"1","%","0","A">>, e |-> NoError],
                        ENDLine, ENDLine >>

\* The position of the first inquiry for which the data map has no entry,
\* 0 when there is none before the line that ends the command.
MissingAt(stream, data) ==
    LET upto == IF TerminalAt(stream.lines) = 0 THEN Len(stream.lines)
                ELSE TerminalAt(stream.lines)
        missing == {i \in 1..upto : /\ IsInquire(stream.lines[i])
                                     /\ Payload(stream.lines[i]) \notin DOMAIN data}
    IN  IF missing = {} THEN 0 ELSE First(missing)

\* The peer inquires for a keyword the data map has no entry for, and the
\* lines up to that inquiry can be decoded.
InquiresMissing(stream, data) ==
    /\ MissingAt(stream, data) # 0
    /\ \A i \in 1..MissingAt(stream, data) : ~MalformedEscape(RawParams(stream.lines[i]))
    /\ \A i \in 1..(MissingAt(stream, data) - 1) :
          IsInquire(stream.lines[i]) => HasPayload(data[Payload(stream.lines[i])])

\* C19: when the peer inquires for a keyword that is not in the data map,
\* Transact writes one CAN line for it, no D and no END line, reads no
\* line behind the inquiry and fails with the error that names the missing
\* keyword.
C19_InquireMissing ==
    (/\ req.op = "Transact" /\ req.wfail = 0
     /\ InquiresMissing(req.script, req.data))
    =>  LET m == MissingAt(req.script, req.data)
        IN  /\ req.res.out =
                  <<Encode(WLine(req.cmd, req.params))>>
                  \o InquiryAnswers(SubSeq(req.script.lines, 1, m - 1), req.data)
                  \o <<CANLine>>
            /\ req.res.rest.lines = SubSeq(req.script.lines, m + 1, Len(req.script.lines))
            /\ req.res.done /\ req.res.data = <<>>
            /\ req.res.err = ErrMissingData(Payload(req.script.lines[m]))

C19_Witness ==
    /\ req.op = "Transact" /\ req.wfail = 0
    /\ Len(req.script.lines) = 3
    /\ MissingAt(req.script, req.data) = 2
    /\ IsInquire(req.script.lines[1]) /\ IsTerminal(req.script.lines[3])
    /\ req.res.done /\ req.res.err = ErrMissingData(KEY)
    /\ req.res.out = << Encode(WLine(req.cmd, req.params)),
                        [cmd |-> DataVerb, text |-> <<"1","%","0","A">>, e |-> NoError],
                        ENDLine, CANLine >>
    /\ Len(req.res.rest.lines) = 1

\* The first response line of the stream.
FirstResponse(stream) == stream.lines[First(Genuine(stream.lines))]

BYELine == Encode(WLine(BYE, <<>>))

\* C22: Close writes exactly one line, BYE, and then closes the pipe; it
\* reads none of the peer's lines, whatever they are, and returns without
\* waiting for any.
C22_Close ==
    (req.op = "Close" /\ req.wfail = 0) =>
        /\ req.res.out = <<BYELine>>
        /\ session = "closed"
        /\ req.res.rest = req.script
        /\ req.res.done

C22_Witness ==
    /\ req.op = "Close" /\ req.wfail = 0
    /\ session = "closed"
    /\ Len(req.script.lines) = 2 /\ IsTerminal(req.script.lines[1])
    /\ req.res.out = <<BYELine>> /\ req.res.err = Nil
    /\ Len(req.res.rest.lines) = 2

\* The latest call of the client was taken by the handler of a command,
\* which returned a structured Error that Serve wrote to the stream.
HandlerErrorSent ==
    /\ req.op = "SimpleCmd" /\ req.wfail = 0
    /\ last.op = "cmd" /\ last.cmd = ToUpper(req.cmd)
    /\ Len(last.calls) = 1 /\ last.calls[1].res.kind = "Error"
    /\ last.err = Nil

\* C23: when the handler of a command returns a structured Error, the
\* client's SimpleCmd for that command fails with an Error whose four
\* fields are those of the handler's Error.
C23_ErrorEndToEnd ==
    HandlerErrorSent =>
        /\ req.res.done
        /\ req.res.err = PErr(last.calls[1].res.e)

C25_BlueprintReadOnly ==
    proto = Setup(proto.name)

CommandRead == last.in.lines[First(Genuine(last.in.lines))]

\* C27: the letter case of a verb plays no part in its dispatch.  What a
\* command line gets is decided by the upper-case form of its verb: the
\* handler registered for that form is invoked once with the line's
\* parameters, the built-in of that form answers, and only a verb whose
\* upper-case form is neither registered nor built in is unknown.
C27_VerbCaseInsensitive ==
    (CmdStep /\ Genuine(last.in.lines) # {}) =>
        LET verb == ToUpper(RawVerb(CommandRead))
        IN  /\ last.cmd = verb
            /\ last.params = Payload(CommandRead)
            /\ (verb \in DOMAIN Registered /\ verb \notin {NOP, BYE, OPTION, HELP}) =>
                  /\ Len(last.calls) = 1
                  /\ last.calls[1].h = Registered[verb]
                  /\ last.calls[1].params = Payload(CommandRead)
            /\ verb \in {NOP, BYE} => last.calls = <<>> /\ Answered(<<OKLine>>)
            /\ (verb = RESET /\ RESET \notin DOMAIN Registered) =>
                  /\ Len(last.calls) = 1 /\ last.calls[1].h = "defaultResetCmd"
                  /\ Answered(<<OKLine>>)
            /\ (verb = OPTION /\ ~proto.HasSetOption) => Answered(<<ErrLine(ErrNotImpl)>>)
            /\ (verb = HELP /\ last.params = <<>> /\ last.err = Nil) =>
                  last.resp[Len(last.resp)] = OKLine
            /\ (verb \notin BuiltinVerbs /\ verb \notin DOMAIN Registered) =>
                  last.calls = <<>> /\ Answered(<<ErrLine(ErrUnknownCmd)>>)

C27_Witness ==
    /\ CmdStep /\ Len(last.in.lines) = 1
    /\ RawVerb(CommandRead) = <<"g","e","t","p","i","n">>
    /\ Len(last.calls) = 1 /\ last.calls[1].h = "getpin"
    /\ last.calls[1].params = <<"x">>
    /\ last.resp = <<OKLine>>

\* C28: unescaping the escaped form of any text succeeds and gives the
\* text back.
C28_EscapeRoundTrip ==
    (codec.op = "unescape" /\ codec.chained) =>
        /\ codec.input = escapeParameters(codec.of)
        /\ codec.ok
        /\ codec.out = codec.of

C28_Witness ==
    /\ codec.op = "unescape" /\ codec.chained
    /\ codec.of = <<"%","2","5">>
    /\ codec.input = <<"%","2","5","2","5">>
    /\ codec.ok /\ codec.out = <<"%","2","5">>

\* The percent form of the four characters that escaping replaces.
PercentForm ==
    ("\r" :> <<"%","0","D">>) @@ ("\n" :> <<"%","0","A">>)
    @@ ("%" :> <<"%","2","5">>) @@ ("\\" :> <<"%","5","C">>)

\* The text with every character that has a percent form replaced by it.
RECURSIVE Replaced(_)
Replaced(x) ==
    IF x = <<>> THEN <<>>
    ELSE (IF Head(x) \in DOMAIN PercentForm THEN PercentForm[Head(x)] ELSE <<Head(x)>>)
         \o Replaced(Tail(x))

\* The positions of a text at which a percent sequence starts, when every
\* % of the text starts one.
Percents(t) == {i \in 1..Len(t) : t[i] = "%"}

\* The text without the two characters behind each %.
RECURSIVE Unsequenced(_)
Unsequenced(t) ==
    IF t = <<>> THEN <<>>
    ELSE IF Head(t) = "%" THEN <<"%">> \o Unsequenced(SubSeq(t, 4, Len(t)))
    ELSE <<Head(t)>> \o Unsequenced(Tail(t))

\* C29: escaping replaces CR, LF, % and \ by %0D, %0A, %25 and %5C and
\* leaves every other character as it is.  Unescaping, when it succeeds,
\* leaves every character outside the percent sequences as it is and in
\* its place: a text without % comes back unchanged, and + is neither
\* removed nor turned into a space.
C29_EscapeExact ==
    /\ codec.op = "escape" => codec.out = Replaced(codec.input)
    /\ (codec.op = "unescape" /\ codec.ok) =>
          /\ Len(codec.out) = Len(Unsequenced(codec.input))
          /\ \A i \in 1..Len(codec.out) :
                Unsequenced(codec.input)[i] # "%" =>
                    codec.out[i] = Unsequenced(codec.input)[i]
    /\ (codec.op = "unescape" /\ Percents(codec.input) = {}) =>
          codec.ok /\ codec.out = codec.input

C29_Witness ==
    /\ codec.op = "unescape" /\ ~codec.chained
    /\ codec.input = <<"+","+","+">>
    /\ codec.ok /\ codec.out = <<"+","+","+">>

\* A write of the latest step of Serve was refused.
WriteFailed == last.op \in {"start", "cmd"} /\ last.failed # 0

\* C30: once a write to the peer fails, Serve attempts no further write on
\* the connection and reads no further command; it returns the failure of
\* that write.
C30_WriteFailureEndsServe ==
    WriteFailed =>
        /\ last.tried = last.failed
        /\ pc[last.conn] = "done"
        /\ ret[last.conn] \in {ErrWrite, ErrTooLong}
        /\ \A c \in Conns :
              c = last.conn => ~ENABLED ServeCmd(c) /\ ~ENABLED ServeReadFail(c)

\* The peer closes the stream of the call before it sends a line that ends
\* the command, and the command line itself was written.
ClosedUnanswered ==
    /\ req.op \in {"SimpleCmd", "Transact"}
    /\ req.wfail = 0
    /\ req.script.end = "eof"
    /\ TerminalAt(req.script.lines) = 0

\* C31: SimpleCmd and Transact return with an error when the stream is
\* closed before an OK or ERR line arrives; they never go on reading a
\* closed stream.
C31_ClosedStreamFails ==
    ClosedUnanswered => req.res.done /\ req.res.err # Nil

\* The latest step ran the GETPIN handler of pinentry, and the write of the
\* PIN failed in it.
PinWriteFailed ==
    /\ CmdStep /\ last.cmd = GETPIN /\ last.calls # <<>>
    /\ "dataFailed" \in DOMAIN last.calls[1]
    /\ last.calls[1].dataFailed

\* C32: when writing the PIN fails in the GETPIN handler of pinentry, the
\* handler returns an unstructured error: no OK is sent for that GETPIN and
\* Serve returns.
C32_PinWriteFailureFatal ==
    PinWriteFailed =>
        /\ last.calls[1].res.kind = "other"
        /\ \A i \in 1..Len(last.resp) : last.resp[i] # OKLine
        /\ pc[last.conn] = "done"

\* The positions of the OK and ERR lines in the latest response.
TerminalLines == {i \in 1..Len(last.resp) : last.resp[i].cmd \in {OK, ERR}}

\* C33: a command after which Serve goes on reading was answered with
\* exactly one OK or ERR line, never both, and that line is the last one
\* written before the next command is read.
C33_OneTerminalResponse ==
    (CmdStep /\ pc[last.conn] = "serving") =>
        /\ Cardinality(TerminalLines) = 1
        /\ TerminalLines = {Len(last.resp)}

\* A call of the client on the server has returned: its command line was
\* written, Serve answered it and went on serving, and the call gave a
\* result.
CallAnswered ==
    /\ req.op \in {"SimpleCmd", "Transact", "Option", "Reset"}
    /\ req.wfail = 0 /\ req.res.done
    /\ last.op = "cmd" /\ last.err = Nil

\* C34: when a call of the client returns, it has read every line Serve
\* wrote for its command and nothing is left on the stream for the next
\* call; the call's result is that of Serve's answer to its own command.
C34_Lockstep ==
    CallAnswered =>
        /\ pipe = <<>>
        /\ (req.res.err = Nil) =
           (last.resp # <<>> /\ last.resp[Len(last.resp)].cmd = OK)

\* The client's Option reached the option setter of the blueprint: the
\* latest step of Serve handled the OPTION line of the latest call.
OptionDelivered ==
    /\ req.op = "Option" /\ req.wfail = 0
    /\ last.op = "cmd" /\ last.cmd = OPTION /\ last.params = req.params
    /\ Len(last.opts) = 1

\* C35: an option set with Option(name, value) reaches the setter with
\* key = name and val = value.
C35_OptionAgrees ==
    OptionDelivered =>
        \A n \in OptionNames, v \in OptionValues :
            req.params = OptionParams(n, v) =>
                last.opts[1].key = n /\ last.opts[1].val = v

\* What ReadLine returns for one written line arriving alone.
ReadBack(l) == ReadLine([lines |-> <<RawLine(l)>>, end |-> "more"])

\* C36: every D line WriteData emits can be read by ReadLine on its own,
\* and the payloads read, one after the other, are the bytes given to
\* WriteData, whatever their number and wherever the lines are cut.
C36_DataIntact ==
    (wire.op = "WriteData" /\ wire.err = Nil) =>
        /\ \A i \in 1..Len(wire.out) :
              ReadBack(wire.out[i]).err = Nil /\ ReadBack(wire.out[i]).cmd = DataVerb
        /\ DataOf(RawLines(wire.out)) = wire.input

\* The verbs handleCmd answers without looking at the handler table.
FixedVerbs == {NOP, BYE, OPTION, HELP}

\* C37: no command invokes a handler registered under NOP, BYE, OPTION or
\* HELP: these verbs are answered by the dispatcher itself.  RESET alone
\* runs the handler registered under it.
C37_BuiltinsPrecede ==
    CmdStep =>
        /\ \A i \in 1..Len(last.calls), v \in FixedVerbs \cap DOMAIN proto.Handlers :
              last.calls[i].h # proto.Handlers[v]
        /\ last.cmd \in FixedVerbs => last.calls = <<>>
        /\ (last.cmd = RESET /\ RESET \in DOMAIN proto.Handlers) =>
              Len(last.calls) = 1 /\ last.calls[1].h = proto.Handlers[RESET]

C37_Witness ==
    /\ CmdStep /\ last.cmd = NOP /\ last.err = Nil
    /\ NOP \in DOMAIN proto.Handlers /\ proto.Handlers[NOP] = "nopHandler"
    /\ last.calls = <<>>
    /\ last.resp = <<OKLine>>

\* The position of the first inquiry that Transact cannot answer from the
\* data map: no entry for the keyword, an entry of a type it does not
\* support, or one whose MarshalText fails; 0 when there is none before the
\* line that ends the command.
AbandonedAt(stream, data) ==
    LET upto == IF TerminalAt(stream.lines) = 0 THEN Len(stream.lines)
                ELSE TerminalAt(stream.lines)
        failing == {i \in 1..upto :
                       /\ IsInquire(stream.lines[i])
                       /\ \/ Payload(stream.lines[i]) \notin DOMAIN data
                          \/ ~HasPayload(data[Payload(stream.lines[i])])}
    IN  IF failing = {} THEN 0 ELSE First(failing)

\* Transact gave up on an inquiry of the peer: it met one it cannot answer,
\* with every line up to it decodable and no write refused.
InquiryAbandoned ==
    /\ req.op = "Transact" /\ req.wfail = 0
    /\ AbandonedAt(req.script, req.data) # 0
    /\ \A i \in 1..AbandonedAt(req.script, req.data) :
          ~MalformedEscape(RawParams(req.script.lines[i]))

\* C38: when Transact fails on an inquiry it cannot answer (keyword
\* missing, value of an unsupported type, MarshalText failing), the last
\* line it wrote before returning is CAN.
C38_AbandonedInquiryCancelled ==
    InquiryAbandoned =>
        /\ req.res.done /\ req.res.err # Nil
        /\ req.res.out[Len(req.res.out)] = CANLine

\* C39: once Close has returned, with or without an error, the pipe of the
\* session has been closed.
C39_CloseReleasesStream ==
    (req.op = "Close" /\ req.res.done) => session = "closed"

====
